---- MODULE Spec2Model ----
(***************************************************************************)
(* dbots.py: the posting pipeline of Poster (poster.py), the service       *)
(* registry (service.py), the HTTP transport's status handling (http.py),  *)
(* the recurring AsyncLoop and the event handler (eventhandler.py).        *)
(*                                                                         *)
(* Python values are modelled as follows.  None is the string NoneStr      *)
(* where a string is expected and the integer NoneInt where a count is     *)
(* expected.  A dict is a sequence of entries in insertion order.  Every   *)
(* value a call can return or raise (HTTPResponse, exception, the custom   *)
(* handler's result, a collection of results) is one record shape, see     *)
(* Value.                                                                  *)
(***************************************************************************)
EXTENDS Integers, Sequences, FiniteSets, TLC

\* ------------------------------------------------------------------ bounds
MaxCalls == 1      \* calls of post / manual_post made by user code
MaxLoops == 2      \* calls of start_loop
MaxKeyOps == 1     \* calls of set_key / get_key / remove_key
MaxTicks == 1      \* wake-ups of AsyncLoop tasks
MaxRegs == 2       \* registrations of a listener: event(coro) or event(name)(coro)
MaxDispatches == 1 \* calls of dispatch made by user code
MaxTasks == 3      \* listener tasks scheduled by the dispatch calls of user code
MaxReads == 2      \* read operations called on a Service instance

\* ----------------------------------------------------------- python values
NoneStr == "<None>"
NoneInt == -1

\* bool(x) of an Optional[str]: None and '' are falsy
TruthyStr(s) == s # NoneStr /\ s # ""
\* bool(x) of an Optional[int]: None and 0 are falsy
TruthyInt(n) == n # NoneInt /\ n # 0

\* str.lower() on the strings the model uses
Lower(s) ==
  CASE s = "TopGG" -> "topgg"
    [] s = "DBots" -> "dbots"
    [] s = "Custom" -> "custom"
    [] s = "TOP.GG" -> "top.gg"
    [] s = "Discord.Bots.GG" -> "discord.bots.gg"
    [] s = " TopGG " -> " topgg "
    [] OTHER -> s

\* f'{prefix}{token}' on the credentials the model uses
FString(prefix, token) ==
  CASE prefix = "Bot " /\ token = "T1" -> "Bot T1"
    [] prefix = "Bot " /\ token = "T2" -> "Bot T2"
    [] prefix = "Bot " /\ token = "T3" -> "Bot T3"
    [] prefix = "Bot " /\ token = "" -> "Bot "
    [] prefix = "Bearer " /\ token = "T1" -> "Bearer T1"
    [] prefix = "Bearer " /\ token = "T2" -> "Bearer T2"
    [] prefix = "Bearer " /\ token = "T3" -> "Bearer T3"
    [] prefix = "Bearer " /\ token = "" -> "Bearer "
    [] OTHER -> token

\* one shape for everything a call returns or raises
Value(kind, type, status, req, detail, items) ==
  [kind |-> kind, type |-> type, status |-> status, req |-> req,
   detail |-> detail, items |-> items]

NoValue == Value("none", "NoneType", 0, 0, <<>>, <<>>)
Error(type, detail) == Value("error", type, 0, 0, detail, <<>>)

\* errors.py
APIKeyException(detail) == Error("APIKeyException", detail)
ServiceException(detail) == Error("ServiceException", detail)
EndpointRequiresToken == Error("EndpointRequiresToken", <<"This endpoint requires a token.">>)
\* builtins
KeyError(key) == Error("KeyError", <<key>>)
AttributeError(name) == Error("AttributeError", <<"no attribute", name>>)

\* the exceptions of the HTTPException family carry .response/.status/.body
HTTPErrorTypes == {"HTTPException", "HTTPUnauthorized", "HTTPForbidden", "HTTPNotFound"}
HasResponseAttr(err) == err.type \in HTTPErrorTypes

\* ------------------------------------------------------------- http.py
\* what the remote end (or the network) does with one request
HttpStatuses == {200, 401, 404, 500}
NetworkFailure == 0     \* aiohttp raised before any status was received
NoReply == -2           \* the request is in flight, or there was none
HttpOutcomes == HttpStatuses \cup {NetworkFailure}

\* HTTPClient.request with the test of line 67 widened to status < 400: a
\* redirect or not-modified reply is returned like a success
HTTPClient_request_Lenient(status, req) ==
  IF status = NetworkFailure
    THEN Value("error", "ClientConnectionError", 0, req, <<>>, <<>>)
  ELSE IF 400 > status /\ status >= 200
    THEN Value("response", "HTTPResponse", status, req, <<>>, <<>>)
  ELSE IF status = 401
    THEN Value("error", "HTTPUnauthorized", status, req, <<>>, <<>>)
  ELSE IF status = 403
    THEN Value("error", "HTTPForbidden", status, req, <<>>, <<>>)
  ELSE IF status = 404
    THEN Value("error", "HTTPNotFound", status, req, <<>>, <<>>)
  ELSE Value("error", "HTTPException", status, req, <<>>, <<>>)

\* HTTPClient.request: the status of the reply decides return or raise.  The
\* body of the reply is text or well-formed JSON, so that HTTPResponse can
\* be built from it (line 65).
HTTPClient_request(status, req) ==
  IF status = NetworkFailure
    THEN Value("error", "ClientConnectionError", 0, req, <<>>, <<>>)
  ELSE IF 300 > status /\ status >= 200
    THEN Value("response", "HTTPResponse", status, req, <<>>, <<>>)
  ELSE IF status = 401
    THEN Value("error", "HTTPUnauthorized", status, req, <<>>, <<>>)
  ELSE IF status = 403
    THEN Value("error", "HTTPForbidden", status, req, <<>>, <<>>)
  ELSE IF status = 404
    THEN Value("error", "HTTPNotFound", status, req, <<>>, <<>>)
  ELSE Value("error", "HTTPException", status, req, <<>>, <<>>)

\* ------------------------------------------------------------ service.py
\* <Service>.aliases() of every descriptor of the registry; CustomService is
\* a descriptor registered by the embedding application under the alias
\* 'custom'
Aliases ==
  [ BladeList |-> {"bladebotlist", "bladebotlist.xyz", "bladelist", "bladelist.gg"},
    Blist |-> {"blist", "blist.xyz"},
    BotsOnDiscord |-> {"botsondiscord", "bots.ondiscord.xyz"},
    Carbon |-> {"carbonitex", "carbonitex.net", "carbon"},
    DBots |-> {"dbots", "dbots.co"},
    DiscordBoats |-> {"discordboats", "discord.boats"},
    DiscordBotList |-> {"discordbotlist", "discordbotlist.com"},
    DiscordBotlistEU |-> {"dbleu", "discordbotlisteu"},
    DiscordBotsGG |-> {"discordbotsgg", "discord.bots.gg"},
    DiscordExtremeList |-> {"discordextremelist", "discordextremelist.xyz"},
    DiscordLabs |-> {"discordlabs", "discordlabs.org"},
    DiscordListSpace |-> {"discordlistspace", "discordlist.space", "botlistspace", "botlist.space"},
    DiscordListology |-> {"discordlistology", "discordlistology.com"},
    DiscordServices |-> {"discordservices", "discordservices.net"},
    DiscordsCom |-> {"botsfordiscord", "botsfordiscord.com", "discords", "discords.com"},
    Disforge |-> {"disforge", "disforge.com"},
    FatesList |-> {"fateslist", "fateslist.xyz"},
    InfinityBotList |-> {"infinitybotlist", "infinitybotlist.com"},
    Listcord |-> {"listcord", "listcord.gg"},
    MotionBotlist |-> {"motion", "motiondevelopment", "motionbotlist", "motiondevelopment.top"},
    SpaceBotsList |-> {"spacebotslist", "space-bot-list.xyz"},
    TopCord |-> {"topcord", "topcord.xyz"},
    TopGG |-> {"topgg", "top.gg"},
    VoidBots |-> {"voidbots", "voidbots.net"},
    WonderBotList |-> {"wonderbotlist", "wonderbotlist.com"},
    YABL |-> {"yabl", "yabl.xyz"},
    CustomService |-> {"custom", "customservice"} ]

ServiceNames == DOMAIN Aliases
aliases(svc) == IF svc \in ServiceNames THEN Aliases[svc] ELSE {}

\* Service.SERVICES, in the order of the list at the end of service.py
BuiltinServices ==
  << "BladeList", "Blist", "BotsOnDiscord", "Carbon", "DBots",
     "DiscordBoats", "DiscordBotList", "DiscordBotlistEU", "DiscordBotsGG", "DiscordExtremeList",
     "DiscordLabs", "DiscordListSpace", "DiscordListology", "DiscordServices", "DiscordsCom",
     "Disforge", "FatesList", "InfinityBotList", "Listcord", "MotionBotlist",
     "SpaceBotsList", "TopCord", "TopGG", "VoidBots", "WonderBotList",
     "YABL" >>

\* Service.get: the first descriptor of SERVICES one of whose aliases is
\* key.lower(); NoneStr when the loop falls through to the raise.  lowered
\* is key.lower(), which is the same string in every turn of the loop.
RECURSIVE FirstMatch(_, _, _)
FirstMatch(services, lowered, n) ==
  IF n > Len(services) THEN NoneStr
  ELSE IF lowered \in aliases(services[n]) THEN services[n]
  ELSE FirstMatch(services, lowered, n + 1)

\* Service.get without the loop's first iteration: the first descriptor of
\* SERVICES is never considered
Service_get_SkipsFirst(services, key) == FirstMatch(services, Lower(key), 2)

Service_get(services, key) == FirstMatch(services, Lower(key), 1)

\* what a call of Service.get returns (the descriptor) or raises
Descriptor(svc) == Value("service", svc, 0, 0, <<>>, <<>>)
Service_get_outcome(services, key) ==
  IF Service_get(services, key) = NoneStr
    THEN ServiceException(<<"Invalid service">>)
    ELSE Descriptor(Service_get(services, key))

\* Service._request without the test of line 86: the request is made whether
\* or not the instance has a token
Service_request_NoTest(token, options) ==
  [k |-> "http", val |-> NoValue,
   request |-> [service |-> options.service, method |-> options.method, url |-> options.url,
                headers |-> options.headers, payload |-> {}]]

\* Service._request, lines 85-88: an operation flagged requires_token on an
\* instance whose token is None or '' raises; otherwise the options, without
\* the flag, go to HTTPClient.request
Service_request(token, options) ==
  IF options.requires_token /\ ~TruthyStr(token)
    THEN [k |-> "raise", val |-> EndpointRequiresToken,
          request |-> [service |-> "", method |-> "", url |-> <<>>, headers |-> {}, payload |-> {}]]
    ELSE [k |-> "http", val |-> NoValue,
          request |-> [service |-> options.service, method |-> options.method,
                       url |-> options.url, headers |-> options.headers, payload |-> {}]]

\* read operations of the service classes: the options each passes to
\* _request on an instance with the given token
ReadOps == {"TopGG.get_bot", "TopGG.get_user", "DBots.get_audit", "DiscordBotsGG.get_bot",
            "DiscordBoats.get_bot", "Carbon.get_bots"}
ReadOptions(op, token, id) ==
  CASE op = "TopGG.get_bot" ->
         [service |-> "TopGG", method |-> "GET", url |-> <<"https://top.gg/api", "/bots/", id, "">>,
          headers |-> {<<"Authorization", token>>}, requires_token |-> TRUE]
    [] op = "TopGG.get_user" ->
         [service |-> "TopGG", method |-> "GET", url |-> <<"https://top.gg/api", "/users/", id, "">>,
          headers |-> {<<"Authorization", token>>}, requires_token |-> TRUE]
    [] op = "DBots.get_audit" ->
         [service |-> "DBots", method |-> "GET",
          url |-> <<"https://dbots.co/api/v1", "/bots/", id, "/log">>,
          headers |-> {<<"Authorization", token>>}, requires_token |-> TRUE]
    [] op = "DiscordBotsGG.get_bot" ->
         [service |-> "DiscordBotsGG", method |-> "GET",
          url |-> <<"https://discord.bots.gg/api/v1", "/bots/", id, "">>,
          headers |-> {<<"Authorization", token>>}, requires_token |-> TRUE]
    [] op = "DiscordBoats.get_bot" ->
         [service |-> "DiscordBoats", method |-> "GET",
          url |-> <<"https://discord.boats/api/v2", "/bot/", id, "">>,
          headers |-> {}, requires_token |-> FALSE]
    [] OTHER ->
         [service |-> "Carbon", method |-> "GET",
          url |-> <<"https://www.carbonitex.net/discord", "/api/listedbots", "", "">>,
          headers |-> {}, requires_token |-> FALSE]

\* <Service>._post: the request each descriptor builds.  The parameter order
\* is the one of the signatures in service.py: shard_count before shard_id.
Service_post(svc, bot_id, token, server_count, user_count, voice_connections, shard_count, shard_id) ==
  CASE svc = "BladeList" ->
         [service |-> svc, method |-> "PUT",
          url |-> <<"https://api.bladelist.gg", "/bots/", bot_id, "/">>,
          headers |-> {<<"Authorization", token>>, <<"Content-Type", "application/json">>},
          payload |-> {<<"server_count", server_count>>}
                      \cup (IF TruthyInt(shard_id) /\ TruthyInt(shard_count)
                              THEN {<<"shard_count", shard_count>>}
                              ELSE {})]
    [] svc = "Blist" ->
         [service |-> svc, method |-> "POST",
          url |-> <<"https://blist.xyz/api/v2", "/bot/", bot_id, "/stats">>,
          headers |-> {<<"Authorization", token>>},
          payload |-> {<<"server_count", server_count>>}
                      \cup (IF TruthyInt(shard_id) /\ TruthyInt(shard_count)
                              THEN {<<"shard_count", shard_count>>}
                              ELSE {})]
    [] svc = "BotsOnDiscord" ->
         [service |-> svc, method |-> "POST",
          url |-> <<"https://bots.ondiscord.xyz/bot-api", "/bots/", bot_id, "/guilds">>,
          headers |-> {<<"Authorization", token>>},
          payload |-> {<<"guildCount", server_count>>}]
    [] svc = "Carbon" ->
         [service |-> svc, method |-> "POST",
          url |-> <<"https://www.carbonitex.net/discord", "/data/botdata.php", "", "">>,
          headers |-> {},
          payload |-> {<<"key", token>>, <<"servercount", server_count>>}]
    [] svc = "DBots" ->
         [service |-> svc, method |-> "POST",
          url |-> <<"https://dbots.co/api/v1", "/bots/", bot_id, "/stats">>,
          headers |-> {<<"Authorization", token>>},
          payload |-> {<<"guildCount", server_count>>}]
    [] svc = "DiscordBoats" ->
         [service |-> svc, method |-> "POST",
          url |-> <<"https://discord.boats/api/v2", "/bot/", bot_id, "">>,
          headers |-> {<<"Authorization", token>>},
          payload |-> {<<"server_count", server_count>>}]
    [] svc = "DiscordBotList" ->
         [service |-> svc, method |-> "POST",
          url |-> <<"https://discordbotlist.com/api/v1", "/bots/", bot_id, "/stats">>,
          headers |-> {<<"Authorization", FString("Bot ", token)>>},
          payload |-> {<<"guilds", server_count>>}
                      \cup (IF TruthyInt(shard_id) /\ TruthyInt(shard_count)
                              THEN {<<"shard_id", shard_id>>}
                              ELSE {})
                      \cup (IF TruthyInt(user_count)
                              THEN {<<"users", user_count>>}
                              ELSE {})
                      \cup (IF TruthyInt(voice_connections)
                              THEN {<<"voice_connections", voice_connections>>}
                              ELSE {})]
    [] svc = "DiscordBotlistEU" ->
         [service |-> svc, method |-> "POST",
          url |-> <<"https://api.discord-botlist.eu/v1", "/update", "", "">>,
          headers |-> {<<"Authorization", FString("Bearer ", token)>>},
          payload |-> {<<"serverCount", server_count>>}]
    [] svc = "DiscordBotsGG" ->
         [service |-> svc, method |-> "POST",
          url |-> <<"https://discord.bots.gg/api/v1", "/bots/", bot_id, "/stats">>,
          headers |-> {<<"Authorization", token>>},
          payload |-> {<<"guildCount", server_count>>}
                      \cup (IF TruthyInt(shard_id) /\ TruthyInt(shard_count)
                              THEN {<<"shardId", shard_id>>, <<"shardCount", shard_count>>}
                              ELSE {})]
    [] svc = "DiscordExtremeList" ->
         [service |-> svc, method |-> "POST",
          url |-> <<"https://api.discordextremelist.xyz/v2", "/bot/", bot_id, "/stats">>,
          headers |-> {<<"Authorization", token>>},
          payload |-> {<<"guildCount", server_count>>}
                      \cup (IF TruthyInt(shard_id) /\ TruthyInt(shard_count)
                              THEN {<<"shardCount", shard_count>>}
                              ELSE {})]
    [] svc = "DiscordLabs" ->
         [service |-> svc, method |-> "POST",
          url |-> <<"https://bots.discordlabs.org/v2", "/bot/", bot_id, "/stats">>,
          headers |-> {},
          payload |-> {<<"server_count", server_count>>, <<"token", token>>}
                      \cup (IF TruthyInt(shard_id) /\ TruthyInt(shard_count)
                              THEN {<<"shard_count", shard_count>>}
                              ELSE {})]
    [] svc = "DiscordListSpace" ->
         [service |-> svc, method |-> "POST",
          url |-> <<"https://api.discordlist.space/v2", "/bots/", bot_id, "">>,
          headers |-> {<<"Authorization", token>>, <<"Content-Type", "application/json">>},
          payload |-> {<<"server_count", server_count>>}]
    [] svc = "DiscordListology" ->
         [service |-> svc, method |-> "POST",
          url |-> <<"https://discordlistology.com/api/v1", "/bots/", bot_id, "/stats">>,
          headers |-> {<<"Authorization", token>>},
          payload |-> {<<"servers", server_count>>}
                      \cup (IF TruthyInt(shard_id) /\ TruthyInt(shard_count)
                              THEN {<<"shards", shard_count>>}
                              ELSE {})]
    [] svc = "DiscordServices" ->
         [service |-> svc, method |-> "POST",
          url |-> <<"https://api.discordservices.net", "/bot/", bot_id, "/stats">>,
          headers |-> {<<"Authorization", token>>},
          payload |-> {<<"servers", server_count>>}
                      \cup (IF TruthyInt(shard_id) /\ TruthyInt(shard_count)
                              THEN {<<"shards", shard_count>>}
                              ELSE {})]
    [] svc = "DiscordsCom" ->
         [service |-> svc, method |-> "POST",
          url |-> <<"https://discords.com/bots/api", "/bot/", bot_id, "">>,
          headers |-> {<<"Authorization", token>>, <<"Content-Type", "application/json">>},
          payload |-> {<<"server_count", server_count>>}]
    [] svc = "Disforge" ->
         [service |-> svc, method |-> "POST",
          url |-> <<"https://disforge.com/api", "/botstats/", bot_id, "">>,
          headers |-> {<<"Authorization", token>>},
          payload |-> {<<"servers", server_count>>}]
    [] svc = "FatesList" ->
         [service |-> svc, method |-> "POST",
          url |-> <<"https://fateslist.xyz/api", "/botstats/", bot_id, "">>,
          headers |-> {<<"Authorization", token>>},
          payload |-> {<<"servers", server_count>>}]
    [] svc = "InfinityBotList" ->
         [service |-> svc, method |-> "POST",
          url |-> <<"https://api.infinitybotlist.com", "/bot/", bot_id, "/stats">>,
          headers |-> {<<"Authorization", token>>},
          payload |-> {<<"botid", bot_id>>, <<"servers", server_count>>}
                      \cup (IF TruthyInt(shard_id) /\ TruthyInt(shard_count)
                              THEN {<<"shards", shard_count>>}
                              ELSE {})]
    [] svc = "Listcord" ->
         [service |-> svc, method |-> "POST",
          url |-> <<"https://listcord.gg/api", "/bots/", bot_id, "/stats">>,
          headers |-> {<<"Authorization", token>>},
          payload |-> {<<"server_count", server_count>>}]
    [] svc = "MotionBotlist" ->
         [service |-> svc, method |-> "POST",
          url |-> <<"https://www.motiondevelopment.top/api/v1.2", "/bots/", bot_id, "/stats">>,
          headers |-> {<<"key", token>>, <<"Content-Type", "application/json">>},
          payload |-> {<<"server_count", server_count>>}]
    [] svc = "SpaceBotsList" ->
         [service |-> svc, method |-> "POST",
          url |-> <<"https://space-bot-list.xyz/api", "/bot/", bot_id, "">>,
          headers |-> {<<"Authorization", token>>},
          payload |-> {<<"guilds", server_count>>, <<"users", user_count>>}]
    [] svc = "TopCord" ->
         [service |-> svc, method |-> "POST",
          url |-> <<"https://api.topcord.xyz", "/bot/", bot_id, "/stats">>,
          headers |-> {<<"Authorization", token>>},
          payload |-> {<<"guilds", server_count>>}
                      \cup (IF TruthyInt(shard_id) /\ TruthyInt(shard_count)
                              THEN {<<"shards", shard_count>>}
                              ELSE {})]
    [] svc = "TopGG" ->
         [service |-> svc, method |-> "POST",
          url |-> <<"https://top.gg/api", "/bots/", bot_id, "/stats">>,
          headers |-> {<<"Authorization", token>>},
          payload |-> {<<"server_count", server_count>>}
                      \cup (IF TruthyInt(shard_id) /\ TruthyInt(shard_count)
                              THEN {<<"shard_id", shard_id>>, <<"shard_count", shard_count>>}
                              ELSE {})]
    [] svc = "VoidBots" ->
         [service |-> svc, method |-> "POST",
          url |-> <<"https://api.voidbots.net", "/bot/stats/", bot_id, "">>,
          headers |-> {<<"Authorization", token>>},
          payload |-> {<<"server_count", server_count>>}
                      \cup (IF TruthyInt(shard_id) /\ TruthyInt(shard_count)
                              THEN {<<"shard_count", shard_count>>}
                              ELSE {})]
    [] svc = "WonderBotList" ->
         [service |-> svc, method |-> "POST",
          url |-> <<"https://api.wonderbotlist.com/v1", "/bot/", bot_id, "">>,
          headers |-> {<<"Authorization", token>>},
          payload |-> {<<"serveurs", server_count>>}
                      \cup (IF TruthyInt(shard_id) /\ TruthyInt(shard_count)
                              THEN {<<"shard", shard_count>>}
                              ELSE {})]
    [] svc = "YABL" ->
         [service |-> svc, method |-> "POST",
          url |-> <<"https://yabl.xyz/api", "/bot/", bot_id, "/stats">>,
          headers |-> {<<"Authorization", token>>},
          payload |-> {<<"guildCount", server_count>>}]
    [] OTHER ->
         [service |-> svc, method |-> "POST",
          url |-> <<"http://httpbin.org", "/post?id=", bot_id, "">>,
          headers |-> {<<"Authorization", token>>},
          payload |-> {<<"server_count", server_count>>, <<"user_count", user_count>>,
                       <<"voice_connections", voice_connections>>}
                      \cup (IF TruthyInt(shard_id) /\ TruthyInt(shard_count)
                              THEN {<<"shard_id", shard_id>>, <<"shard_count", shard_count>>}
                              ELSE {})]

\* -------------------------------------------------------- eventhandler.py
\* a Python object that can be passed to event() or to the decorator it
\* returns: kind is "coroutine function" (async def), "function" (def),
\* "str", "int", and for the values the calls produce "inner" (the decorator
\* closure), "method" (a bound on_<event> method), "TypeError", "NoneType"
Obj(kind, name, id) == [kind |-> kind, name |-> name, id |-> id]
NoneObj == Obj("NoneType", "", 0)
TypeError == Obj("TypeError", "event registered must be a coroutine function", 0)

callable(x) == x.kind \in {"coroutine function", "function", "method"}
iscoroutinefunction(x) == x.kind = "coroutine function"

\* the event names the model uses (the keys of EventHandler._listeners)
EventNames == {"post", "post_fail", "auto_post", "auto_post_fail", "custom_post"}

\* name[3:] on the function names the model uses
Slice3(name) ==
  CASE name = "on_post" -> "post"
    [] name = "on_post_fail" -> "post_fail"
    [] name = "on_auto_post" -> "auto_post"
    [] name = "on_auto_post_fail" -> "auto_post_fail"
    [] name = "on_custom_post" -> "custom_post"
    [] name = "my_post" -> "post"
    [] OTHER -> ""

\* 'on_' + event
OnPrefix(event) ==
  CASE event = "post" -> "on_post"
    [] event = "post_fail" -> "on_post_fail"
    [] event = "auto_post" -> "on_auto_post"
    [] event = "auto_post_fail" -> "on_auto_post_fail"
    [] event = "custom_post" -> "on_custom_post"
    [] OTHER -> "on_"

\* EventHandler._listeners is a function from the event names to the list
\* registered under each; the empty list stands for an absent key (the code
\* never stores an empty list, and dispatch treats both alike)
NoListeners == [e \in EventNames |-> <<>>]

\* Register with list.insert(0, coro) where lines 38 and 48 append
Register_Prepend(ls, event_name, coro) == [ls EXCEPT ![event_name] = <<coro>> \o @]

\* lines 37-40 and 47-50: append to the list of the key, or start one
Register(ls, event_name, coro) == [ls EXCEPT ![event_name] = Append(@, coro)]

Registered(kind, val, ls) == [kind |-> kind, val |-> val, listeners |-> ls]

\* event() without the tests of lines 33 and 45: whatever is passed is
\* registered
event_NoCheck(ls, name_or_coro) ==
  IF callable(name_or_coro)
    THEN Registered("returned", name_or_coro,
                    Register(ls, Slice3(name_or_coro.name), name_or_coro))
    ELSE Registered("returned", Obj("inner", name_or_coro.name, 0), ls)

\* event() that registers and then falls through to the bare return of
\* line 54
event_ReturnsNone(ls, name_or_coro) ==
  IF callable(name_or_coro)
    THEN IF ~iscoroutinefunction(name_or_coro)
           THEN Registered("raised", TypeError, ls)
           ELSE Registered("returned", NoneObj,
                           Register(ls, Slice3(name_or_coro.name), name_or_coro))
    ELSE Registered("returned", Obj("inner", name_or_coro.name, 0), ls)

\* EventHandler.event(name_or_coro), lines 30-43 and 53: what it returns or
\* raises, and the registry it leaves
event(ls, name_or_coro) ==
  IF callable(name_or_coro)
    THEN IF ~iscoroutinefunction(name_or_coro)
           THEN Registered("raised", TypeError, ls)
           ELSE Registered("returned", name_or_coro,
                           Register(ls, Slice3(name_or_coro.name), name_or_coro))
    ELSE Registered("returned", Obj("inner", name_or_coro.name, 0), ls)

\* the closure inner(coro) of event(name_or_coro), lines 44-52
inner(ls, name_or_coro, coro) ==
  IF ~iscoroutinefunction(coro)
    THEN Registered("raised", TypeError, ls)
    ELSE Registered("returned", coro, Register(ls, name_or_coro, coro))

\* _schedule_event: a new _ClientEventTask, not yet run.  d is the number of
\* the dispatch call that created it; outcome is what the listener's body
\* did once it has run, exc the exception the task itself ended with
Task(coro, event_name, d) ==
  [coro |-> coro, event |-> event_name, dispatch |-> d, state |-> "pending",
   outcome |-> "none", exc |-> NoneObj]

\* getattr(self, method) succeeds: the attributes named on_... of the owner
\* are the methods its class defines and, for a Poster, on_custom_post
HasMethod(ms, custom, method) ==
  method \in ms \/ (method = "on_custom_post" /\ custom)

\* dispatch without lines 81-86: the reserved method is never scheduled
dispatch_NoMethod(ls, ms, custom, ev, d) ==
  [n \in 1 .. Len(ls[ev]) |-> Task(ls[ev][n], ev, d)]

\* dispatch without the try of lines 81-84: a task for on_<event> is
\* scheduled whether or not the owner has the method
dispatch_AlwaysMethod(ls, ms, custom, ev, d) ==
  [n \in 1 .. Len(ls[ev]) |-> Task(ls[ev][n], ev, d)]
  \o <<Task(Obj("method", OnPrefix(ev), 0), ev, d)>>

\* EventHandler.dispatch(event, ...), lines 72-86: the tasks it schedules, in
\* order
dispatch(ls, ms, custom, ev, d) ==
  [n \in 1 .. Len(ls[ev]) |-> Task(ls[ev][n], ev, d)]
  \o (IF HasMethod(ms, custom, OnPrefix(ev))
        THEN <<Task(Obj("method", OnPrefix(ev), 0), ev, d)>>
        ELSE <<>>)

\* EventHandler._run_event, lines 56-65: the awaited listener returns (ok) or
\* raises; the exception is logged and the task ends normally
run_event(task, ok) ==
  IF ok THEN [task EXCEPT !.state = "done", !.outcome = "returned"]
  ELSE [task EXCEPT !.state = "done", !.outcome = "raised"]

\* ------------------------------------------------------------- the state
VARIABLES
  api_keys,      \* Poster.api_keys: entries [service, key] in insertion order
  has_custom,    \* hasattr(self, 'on_custom_post')
  registered,    \* the descriptors the application appended to Service.SERVICES
  resolved,      \* what the latest call of Service.get by user code returned or raised
  reader,        \* a Service instance built by user code: its token, the number of
                 \* read operations called on it and what the latest one did
  identity,      \* the Poster: how it was built and what its properties report
  loop,          \* Poster._loop: 0 for None, else the id of its AsyncLoop task
  act,           \* per coroutine (0: user code, n > 0: the n-th AsyncLoop task)
                 \* the activation of manual_post it is suspended in
  calls,         \* history: every top-level call of post/manual_post/__on_loop
  requests,      \* history: outbound HTTP requests, in the order issued
  events,        \* history: dispatch() calls, in order
  custom_calls,  \* history: invocations of the on_custom_post handler
  lookups,       \* history: Service.get calls
  key_reads,     \* history: reads of api_keys by manual_post
  started,       \* number of start_loop calls so far
  keyops,        \* number of set_key / get_key / remove_key calls so far
  key_result,    \* what the latest of them returned or raised
  posts,         \* history: every manual_post call for one service (a targeted
                 \* call, or a recursive call of the post-to-all branch)
  listeners,     \* EventHandler._listeners
  methods,       \* the names of the on_<event> methods the Poster's class defines
  tasks,         \* the _ClientEventTask objects created so far, in order
  reg,           \* what the latest call of event() or of its decorator did
  regs,          \* number of registrations attempted so far
  dispatches     \* number of dispatch calls user code made so far

\* Service.SERVICES: the list at the end of service.py and what was appended
SERVICES == BuiltinServices \o registered

vars == <<api_keys, has_custom, registered, resolved, reader, identity, loop, act, calls, requests,
          events, custom_calls, lookups, key_reads, started, keyops, key_result, posts,
          listeners, methods, tasks, reg, regs, dispatches>>

\* the state of the event handler other than its tasks
registry_vars == <<listeners, methods, reg, regs, dispatches>>

Procs == 0 .. MaxLoops
Tasks == 1 .. MaxLoops

\* ------------------------------------------------------- input domains
ServiceArgs == {NoneStr, "", "topgg", "dbots", "TopGG", "custom", "nosuch"}
StoreKeys == {"topgg", "custom"}
Credentials == {"T3", ""}
Metrics == {[server_count |-> 42, user_count |-> NoneInt, voice_connections |-> NoneInt],
            [server_count |-> 7, user_count |-> 5, voice_connections |-> 2]}
InitialStores ==
  { <<>>,
    <<[service |-> "topgg", key |-> "T1"], [service |-> "dbots", key |-> "T2"]>>,
    <<[service |-> "dbots", key |-> "T2"]>>,
    <<[service |-> "custom", key |-> "T1"]>> }
\* what a ClientFiller reports about the client it wraps (client_filler.py:
\* the base class reports None for all three)
Filler(client_id, shard_id, shard_count) ==
  [client_id |-> client_id, shard_id |-> shard_id, shard_count |-> shard_count]
NoFiller == Filler(NoneStr, NoneInt, NoneInt)

\* Poster.__init__ without the test of the sharding option: the shard
\* options are stored whatever it says
Poster_init_KeepsOptions(client_id, sharding, shard_id, shard_count) ==
  [cls |-> "Poster", sharding |-> sharding,
   given |-> [shard_id |-> shard_id, shard_count |-> shard_count],
   client_id_attr |-> client_id,
   shard_id_attr |-> shard_id,
   shard_count_attr |-> shard_count,
   filler |-> NoFiller]

\* Poster.__init__, lines 67-92: the attributes behind the identity
\* properties.  shard_id and shard_count are the options of those names
\* (NoneInt when not passed); they are stored only when sharding is on.
Poster_init(client_id, sharding, shard_id, shard_count) ==
  [cls |-> "Poster", sharding |-> sharding,
   given |-> [shard_id |-> shard_id, shard_count |-> shard_count],
   client_id_attr |-> client_id,
   shard_id_attr |-> IF sharding THEN shard_id ELSE NoneInt,
   shard_count_attr |-> IF sharding THEN shard_count ELSE NoneInt,
   filler |-> NoFiller]

\* ClientPoster.__init__, lines 296-306: Poster.__init__ with no client id
\* and the same options, then the adapter and the sharding flag are kept
ClientPoster_init(filler, sharding, shard_id, shard_count) ==
  [Poster_init(NoneStr, sharding, shard_id, shard_count)
     EXCEPT !.cls = "ClientPoster", !.filler = filler]

\* the properties client_id, shard_id, shard_count of Poster (lines 104-117)
Poster_client_id(self) == self.client_id_attr
Poster_shard_id(self) == self.shard_id_attr
Poster_shard_count(self) == self.shard_count_attr

\* and of ClientPoster (lines 316-326):
\* (self._shard_id or self.filler.shard_id) if self._sharding else None
ClientPoster_client_id(self) == self.filler.client_id
ClientPoster_shard_id(self) ==
  IF self.sharding
    THEN IF TruthyInt(self.shard_id_attr) THEN self.shard_id_attr ELSE self.filler.shard_id
    ELSE NoneInt
ClientPoster_shard_count(self) ==
  IF self.sharding
    THEN IF TruthyInt(self.shard_count_attr) THEN self.shard_count_attr
         ELSE self.filler.shard_count
    ELSE NoneInt

\* the identity manual_post reads through the properties of the object, with
\* the class, the sharding option and the shard options it was built from
Identity(self) ==
  [cls |-> self.cls, sharding |-> self.sharding, given |-> self.given,
   filler |-> self.filler,
   client_id |-> IF self.cls = "ClientPoster" THEN ClientPoster_client_id(self)
                 ELSE Poster_client_id(self),
   shard_id |-> IF self.cls = "ClientPoster" THEN ClientPoster_shard_id(self)
                ELSE Poster_shard_id(self),
   shard_count |-> IF self.cls = "ClientPoster" THEN ClientPoster_shard_count(self)
                   ELSE Poster_shard_count(self)]

Identities ==
  { Identity(Poster_init("1234567890", TRUE, NoneInt, NoneInt)),
    Identity(Poster_init("1234567890", TRUE, 3, 8)) }

\* every way the model builds a Poster or a ClientPoster: sharding on or
\* off, shard options passed or not, an adapter that reports shard values
\* or None
ShardOptions == {<<NoneInt, NoneInt>>, <<3, 8>>}
Fillers == {Filler("1234567890", NoneInt, NoneInt), Filler("1234567890", 5, 6)}
Constructions ==
  { Poster_init("1234567890", sharding, o[1], o[2]) :
      sharding \in BOOLEAN, o \in ShardOptions }
  \cup { ClientPoster_init(filler, sharding, o[1], o[2]) :
           filler \in Fillers, sharding \in BOOLEAN, o \in ShardOptions }

\* the objects user code passes to event() and to the decorator it returns:
\* two coroutine functions that end up listening to the same event, a plain
\* function, an object that is not callable, and event names
Handlers ==
  { Obj("coroutine function", "on_post", 1),
    Obj("coroutine function", "my_post", 2),
    Obj("function", "on_post", 3),
    Obj("int", "", 4) }
EventArgs ==
  {h \in Handlers : callable(h)} \cup {Obj("str", "post", 0), Obj("str", "post_fail", 0)}
DispatchArgs == {"post", "post_fail", "custom_post"}
ClassMethods == {{}, {"on_post"}}

\* ------------------------------------------------------- dict operations
RECURSIVE IndexOf(_, _, _)
IndexOf(store, service, n) ==
  IF n > Len(store) THEN 0
  ELSE IF store[n].service = service THEN n
  ELSE IndexOf(store, service, n + 1)

HasKey(store, service) == IndexOf(store, service, 1) # 0
\* list(d.keys())
Keys(store) == [n \in 1 .. Len(store) |-> store[n].service]
\* d[service], for a key that is present
Lookup(store, service) == store[IndexOf(store, service, 1)].key
\* d[service] = key: a new key is appended, an old one keeps its position
Store(store, service, key) ==
  IF HasKey(store, service)
    THEN [store EXCEPT ![IndexOf(store, service, 1)].key = key]
    ELSE Append(store, [service |-> service, key |-> key])
\* del d[service]
Delete(store, service) ==
  LET n == IndexOf(store, service, 1)
  IN  SubSeq(store, 1, n - 1) \o SubSeq(store, n + 1, Len(store))


\* ------------------------------------------------------ Poster.manual_post
\* the attributes the model needs of the builtin types: a dict has no append
HasAttr(type, name) ==
  CASE type = "list" -> name \in {"append", "extend", "pop", "index"}
    [] type = "dict" -> name \in {"get", "keys", "values", "items", "pop", "update"}
    [] OTHER -> FALSE

\* poster.py line 237: responses = {}
NewResponses == [type |-> "dict", items |-> <<>>]

\* an activation of manual_post: the top-level call `call`, its arguments, and
\* for the post-to-all branch the local variables keys, responses and the
\* position i of the for loop; exc is the exception an AsyncLoop task ended with
Activation(pc, call, service, m, fan, keys, i, responses) ==
  [pc |-> pc, call |-> call, service |-> service, m |-> m, fan |-> fan,
   keys |-> keys, i |-> i, responses |-> responses, req |-> 0, post |-> 0,
   exc |-> NoValue]

NoActivation(pc) ==
  Activation(pc, 0, NoneStr, [server_count |-> 0, user_count |-> NoneInt,
                               voice_connections |-> NoneInt],
             FALSE, <<>>, 0, NewResponses)

\* What one call manual_post(server_count, service, ...) does up to its first
\* await or its first raise, for a service that is not the post-to-all case
\* (lines 228-235 and 248-256).  k is "custom" (the handler is awaited),
\* "http" (the request is in flight) or "raise".
Plan(k, val, looked, read, request) ==
  [k |-> k, val |-> val, lookups |-> looked, key_reads |-> read, request |-> request,
   posting |-> TRUE]

NoRequest == Service_post("", "", "", 0, 0, 0, 0, 0)

\* TargetedPost without the check of line 234: an empty key store is not
\* rejected up front
TargetedPost_NoEmptyCheck(service, m, store, custom, services, id) ==
  IF service = "custom" /\ custom
    THEN Plan("custom", NoValue, <<>>, <<>>, NoRequest)
  ELSE IF Service_get(services, service) = NoneStr
    THEN Plan("raise", ServiceException(<<"Invalid service">>), <<service>>, <<>>, NoRequest)
  ELSE IF ~HasKey(store, service)
    THEN Plan("raise", KeyError(service), <<service>>, <<service>>, NoRequest)
  ELSE IF ~TruthyStr(Lookup(store, service))
    THEN Plan("raise", APIKeyException(<<"Service", service, "has no API key">>),
              <<service>>, <<service>>, NoRequest)
  ELSE Plan("http", NoValue, <<service>>, <<service>>,
            Service_post(Service_get(services, service), id.client_id,
                         Lookup(store, service), m.server_count, m.user_count,
                         m.voice_connections, id.shard_id, id.shard_count))

\* TargetedPost with the checks of lines 228 and 234 in the other order: the
\* empty key store is rejected before the custom-post handler is considered
TargetedPost_EmptyCheckFirst(service, m, store, custom, services, id) ==
  IF Len(store) = 0
    THEN Plan("raise", APIKeyException(<<"No API Keys available">>), <<>>, <<"len">>, NoRequest)
  ELSE IF service = "custom" /\ custom
    THEN Plan("custom", NoValue, <<>>, <<>>, NoRequest)
  ELSE TargetedPost_NoEmptyCheck(service, m, store, custom, services, id)

\* TargetedPost with lines 248 and 249 in the other order: the credential is
\* read before the service is resolved
TargetedPost_KeyBeforeService(service, m, store, custom, services, id) ==
  IF service = "custom" /\ custom
    THEN Plan("custom", NoValue, <<>>, <<>>, NoRequest)
  ELSE IF Len(store) = 0
    THEN Plan("raise", APIKeyException(<<"No API Keys available">>), <<>>, <<"len">>, NoRequest)
  ELSE IF ~HasKey(store, service)
    THEN Plan("raise", KeyError(service), <<>>, <<"len", service>>, NoRequest)
  ELSE TargetedPost_NoEmptyCheck(service, m, store, custom, services, id)

TargetedPost(service, m, store, custom, services, id) ==
  IF service = "custom" /\ custom
    THEN Plan("custom", NoValue, <<>>, <<>>, NoRequest)
  ELSE IF Len(store) = 0
    THEN Plan("raise", APIKeyException(<<"No API Keys available">>), <<>>, <<"len">>, NoRequest)
  ELSE IF Service_get(services, service) = NoneStr
    THEN Plan("raise", ServiceException(<<"Invalid service">>), <<service>>, <<"len">>, NoRequest)
  ELSE IF ~HasKey(store, service)
    THEN Plan("raise", KeyError(service), <<service>>, <<"len", service>>, NoRequest)
  ELSE IF ~TruthyStr(Lookup(store, service))
    THEN Plan("raise", APIKeyException(<<"Service", service, "has no API key">>), <<service>>, <<"len", service>>, NoRequest)
  ELSE Plan("http", NoValue, <<service>>, <<"len", service>>,
            Service_post(Service_get(services, service), id.client_id,
                         Lookup(store, service), m.server_count, m.user_count,
                         m.voice_connections, id.shard_id, id.shard_count))

\* Enter with the test of line 234 after the post-to-all branch: a post to
\* all services on an empty key store goes through the keys, that is through
\* 'custom' when there is a handler
Enter_NoEmptyCheck(call, service, m, store, custom) ==
  IF ~(service = "custom" /\ custom) /\ ~TruthyStr(service)
    THEN Activation("run", call, service, m, TRUE,
                    Keys(store) \o (IF custom THEN <<"custom">> ELSE <<>>),
                    1, NewResponses)
    ELSE Activation("run", call, service, m, FALSE, <<>>, 0, NewResponses)

\* lines 228-240: the activation a call starts with
Enter(call, service, m, store, custom) ==
  IF ~(service = "custom" /\ custom) /\ Len(store) # 0 /\ ~TruthyStr(service)
    THEN Activation("run", call, service, m, TRUE,
                    Keys(store) \o (IF custom THEN <<"custom">> ELSE <<>>),
                    1, NewResponses)
    ELSE Activation("run", call, service, m, FALSE, <<>>, 0, NewResponses)

\* lines 241-247: one turn of the for loop of the post-to-all branch, from
\* the evaluation of responses.append to the await of the recursive call
NextStep(a, store, custom, services, id) ==
  IF ~a.fan
    THEN TargetedPost(a.service, a.m, store, custom, services, id)
  ELSE IF a.i > Len(a.keys)
    THEN [Plan("return", Value("collection", a.responses.type, 0, 0, <<>>, a.responses.items),
               <<>>, <<>>, NoRequest) EXCEPT !.posting = FALSE]
  ELSE IF ~HasAttr(a.responses.type, "append")
    THEN [Plan("raise", AttributeError("append"), <<>>, <<>>, NoRequest)
            EXCEPT !.posting = FALSE]
  ELSE TargetedPost(a.keys[a.i], a.m, store, custom, services, id)


\* the reads of api_keys before the for loop: len(self.api_keys), .keys()
EnterReads(a) == IF a.fan THEN <<"len", "keys">> ELSE <<>>

Tagged(call, seq) == [n \in 1 .. Len(seq) |-> [call |-> call, key |-> seq[n]]]

Event(name, payload, call) == [name |-> name, payload |-> payload, call |-> call]

\* A top-level call ends.  For user code the result goes to the caller.  For
\* an AsyncLoop task the caller is __on_loop (lines 182-192), which dispatches
\* auto_post or auto_post_fail and re-raises, and then _job (lines 18-21),
\* which sleeps again after a return and ends with the exception otherwise.
\* the dispatch calls one step makes, in order: each is recorded and
\* schedules its tasks
RECURSIVE ScheduleAll(_, _)
ScheduleAll(evs, d) ==
  IF evs = <<>> THEN <<>>
  ELSE dispatch(listeners, methods, has_custom, Head(evs).name, d + 1)
       \o ScheduleAll(Tail(evs), d + 1)

Dispatched(evs) ==
  /\ events' = events \o evs
  /\ tasks' = tasks \o ScheduleAll(evs, Len(events))

\* Finish with an __on_loop that swallows the error after the dispatch of
\* line 191 (no `raise error`): the task sleeps again
Finish_Suppressed(p, c, cs, kind, val, evs) ==
      /\ calls' = [cs EXCEPT ![c].status = kind, ![c].val = val]
      /\ Dispatched(evs \o
            (IF p = 0 THEN <<>>
             ELSE IF kind = "returned" THEN <<Event("auto_post", val, c)>>
             ELSE <<Event("auto_post_fail", val, c)>>))
      /\ act' = [act EXCEPT ![p] = NoActivation(IF p = 0 THEN "idle" ELSE "sleep")]

\* Finish with an __on_loop that dispatches post / post_fail (the events of
\* lines 258 and 265) where lines 187 and 191 dispatch auto_post / auto_post_fail
Finish_PostEvents(p, c, cs, kind, val, evs) ==
      /\ calls' = [cs EXCEPT ![c].status = kind, ![c].val = val]
      /\ Dispatched(evs \o
            (IF p = 0 THEN <<>>
             ELSE IF kind = "returned" THEN <<Event("post", val, c)>>
             ELSE <<Event("post_fail", val, c)>>))
      /\ act' = [act EXCEPT ![p] =
            IF p = 0 THEN NoActivation("idle")
            ELSE IF kind = "returned" THEN NoActivation("sleep")
            ELSE [NoActivation("failed") EXCEPT !.exc = val]]

Finish(p, c, cs, kind, val, evs) ==
      /\ calls' = [cs EXCEPT ![c].status = kind, ![c].val = val]
      /\ Dispatched(evs \o
            (IF p = 0 THEN <<>>
             ELSE IF kind = "returned" THEN <<Event("auto_post", val, c)>>
             ELSE <<Event("auto_post_fail", val, c)>>))
      /\ act' = [act EXCEPT ![p] =
            IF p = 0 THEN NoActivation("idle")
            ELSE IF kind = "returned" THEN NoActivation("sleep")
            ELSE [NoActivation("failed") EXCEPT !.exc = val]]

\* manual_post runs from activation a to its next await, return or raise
Settle(p, a, cs, ps, evs, reads) ==
  LET plan == NextStep(a, api_keys, has_custom, SERVICES, identity)
      target == IF a.fan THEN a.keys[a.i] ELSE a.service
      b == IF plan.posting THEN [a EXCEPT !.post = Len(ps) + 1] ELSE a
  IN  /\ lookups' = lookups \o Tagged(a.call, plan.lookups)
      /\ posts' = IF plan.posting
                     THEN Append(ps, [call |-> a.call, service |-> target,
                                      status |-> IF plan.k = "raise" THEN "raised" ELSE "running",
                                      reply |-> NoReply, val |-> plan.val])
                     ELSE ps
      /\ key_reads' = key_reads \o Tagged(a.call, reads \o plan.key_reads)
      /\ CASE plan.k = "http" ->
                /\ requests' = Append(requests, [call |-> a.call, request |-> plan.request])
                /\ custom_calls' = custom_calls
                /\ act' = [act EXCEPT ![p] = [b EXCEPT !.pc = "http", !.req = Len(requests) + 1]]
                /\ calls' = cs
                /\ Dispatched(evs)
           [] plan.k = "custom" ->
                /\ custom_calls' = Append(custom_calls, [call |-> a.call, m |-> a.m])
                /\ requests' = requests
                /\ act' = [act EXCEPT ![p] = [b EXCEPT !.pc = "custom", !.req = Len(custom_calls) + 1]]
                /\ calls' = cs
                /\ Dispatched(evs)
           [] plan.k = "return" ->
                /\ Finish(p, a.call, cs, "returned", plan.val, evs)
                /\ UNCHANGED <<requests, custom_calls>>
           [] OTHER ->
                /\ Finish(p, a.call, cs, "raised", plan.val, evs)
                /\ UNCHANGED <<requests, custom_calls>>

\* the awaited recursive call (or the only call) of p came back with val
Continue(p, reply, kind, val, evs) ==
  LET a == act[p]
      ps == [posts EXCEPT ![a.post].status = kind, ![a.post].val = val,
                          ![a.post].reply = reply]
  IN  IF ~a.fan \/ kind = "raised"
        THEN /\ Finish(p, a.call, calls, kind, val, evs)
             /\ posts' = ps
             /\ UNCHANGED <<requests, custom_calls, lookups, key_reads>>
        ELSE Settle(p, [a EXCEPT !.pc = "run", !.i = a.i + 1,
                                 !.responses.items = Append(@, val)],
                    calls, ps, evs, <<>>)


\* ---------------------------------------------------------------- actions
\* a call of manual_post(m.server_count, service, m.user_count,
\* m.voice_connections): no accessor is invoked
NoMetrics == [server_count |-> NoneInt, user_count |-> NoneInt, voice_connections |-> NoneInt]
CallRecord(p, api, service, m) ==
  [proc |-> p, api |-> api, service |-> service, m |-> m, store |-> api_keys,
   status |-> "running", val |-> NoValue, accessed |-> <<>>, gathered |-> NoMetrics]

\* Poster.post, lines 205-207: the accessors it awaits, in order; each was
\* made awaitable by _ensure_coro at construction (lines 26-29, 87-89)
Accessors == <<"server_count", "user_count", "voice_connections">>
ensure_coro(func) ==
  IF iscoroutinefunction(func) THEN func ELSE Obj("coroutine function", func.name, func.id)

\* post with the user count and the voice connections passed to manual_post
\* in each other's place
Poster_post_Swapped(ret) ==
  [server_count |-> ret.server_count, user_count |-> ret.voice_connections,
   voice_connections |-> ret.user_count]

\* line 208: manual_post(servers, service, users, connections), the values
\* the accessors returned (ret) at the positions of manual_post's
\* parameters (server_count, service, user_count, voice_connections)
Poster_post(ret) ==
  [server_count |-> ret.server_count, user_count |-> ret.user_count,
   voice_connections |-> ret.voice_connections]

\* a call of post(service) whose accessors return ret
PostRecord(p, api, service, ret) ==
  [CallRecord(p, api, service, Poster_post(ret))
     EXCEPT !.accessed = Accessors, !.gathered = ret]

UserCalls == Cardinality({c \in 1 .. Len(calls) : calls[c].proc = 0})
TickCalls == Cardinality({c \in 1 .. Len(calls) : calls[c].proc # 0})

\* p calls manual_post(m.server_count, service, m.user_count,
\* m.voice_connections), or post(service) with accessors that return m (the
\* AsyncLoop task calls post() through __on_loop)
Begin(p, api, service, m) ==
  LET c == Len(calls) + 1
      rec == IF api = "manual_post" THEN CallRecord(p, api, service, m)
             ELSE PostRecord(p, api, service, m)
      a == Enter(c, service, rec.m, api_keys, has_custom)
  IN  Settle(p, a, Append(calls, rec), posts, <<>>, EnterReads(a))

\* user code awaits poster.manual_post(...)
CallManualPost(service, m) ==
  /\ act[0].pc = "idle"
  /\ UserCalls < MaxCalls
  /\ Begin(0, "manual_post", service, m)
  /\ UNCHANGED <<api_keys, has_custom, registered, resolved, reader, identity, loop, started, keyops, key_result>>
  /\ UNCHANGED registry_vars

\* user code awaits poster.post(service): the three accessors return m
CallPost(service, m) ==
  /\ act[0].pc = "idle"
  /\ UserCalls < MaxCalls
  /\ Begin(0, "post", service, m)
  /\ UNCHANGED <<api_keys, has_custom, registered, resolved, reader, identity, loop, started, keyops, key_result>>
  /\ UNCHANGED registry_vars

\* AsyncLoop._job: the sleep of task p ends and it awaits __on_loop(), which
\* awaits self.post()
Tick(p, m) ==
  /\ p \in Tasks
  /\ act[p].pc = "sleep"
  /\ TickCalls < MaxTicks
  /\ Begin(p, "tick", NoneStr, m)
  /\ UNCHANGED <<api_keys, has_custom, registered, resolved, reader, identity, loop, started, keyops, key_result>>
  /\ UNCHANGED registry_vars

\* lines 252-266: what manual_post does with the outcome res of the awaited
\* _post: the events it dispatches and what it returns or raises.  The except
\* branch evaluates error.response before it dispatches.
\* AfterRequest without the dispatch of line 258
AfterRequest_NoPostEvent(res, c) ==
  IF res.kind = "response"
    THEN [kind |-> "returned", val |-> res, evs |-> <<>>]
  ELSE IF HasResponseAttr(res)
    THEN [kind |-> "raised", val |-> res, evs |-> <<Event("post_fail", res, c)>>]
  ELSE [kind |-> "raised", val |-> AttributeError("response"), evs |-> <<>>]

AfterRequest(res, c) ==
  IF res.kind = "response"
    THEN [kind |-> "returned", val |-> res, evs |-> <<Event("post", res, c)>>]
  ELSE IF HasResponseAttr(res)
    THEN [kind |-> "raised", val |-> res, evs |-> <<Event("post_fail", res, c)>>]
  ELSE [kind |-> "raised", val |-> AttributeError("response"), evs |-> <<>>]

\* the request p awaits is answered (or fails before an answer)
HttpComplete(p, status) ==
  /\ act[p].pc = "http"
  /\ LET out == AfterRequest(HTTPClient_request(status, act[p].req), act[p].call)
     IN  Continue(p, status, out.kind, out.val, out.evs)
  /\ UNCHANGED <<api_keys, has_custom, registered, resolved, reader, identity, loop, started, keyops, key_result>>
  /\ UNCHANGED registry_vars

\* CustomComplete with a custom branch that dispatches as the targeted branch
\* does (lines 258 and 265): post with the handler's result, post_fail with
\* its exception
CustomComplete_Dispatches(p, ok) ==
  /\ act[p].pc = "custom"
  /\ LET val == Value(IF ok THEN "custom" ELSE "error",
                      IF ok THEN "CustomResult" ELSE "CustomHandlerError",
                      0, act[p].req, <<>>, <<>>)
     IN  Continue(p, NoReply, IF ok THEN "returned" ELSE "raised", val,
                  <<Event(IF ok THEN "post" ELSE "post_fail", val, act[p].call)>>)
  /\ UNCHANGED <<api_keys, has_custom, registered, resolved, reader, identity, loop, started, keyops, key_result>>
  /\ UNCHANGED registry_vars

\* the on_custom_post handler p awaits returns or raises: lines 229-233
CustomComplete(p, ok) ==
  /\ act[p].pc = "custom"
  /\ IF ok
       THEN Continue(p, NoReply, "returned",
                     Value("custom", "CustomResult", 0, act[p].req, <<>>, <<>>), <<>>)
       ELSE Continue(p, NoReply, "raised",
                     Value("error", "CustomHandlerError", 0, act[p].req, <<>>, <<>>), <<>>)
  /\ UNCHANGED <<api_keys, has_custom, registered, resolved, reader, identity, loop, started, keyops, key_result>>
  /\ UNCHANGED registry_vars

\* AsyncLoop.cancel on the task Poster._loop refers to: a task that is still
\* running never resumes its coroutine normally; a finished one is unchanged
Cancelled(a) ==
  IF a.pc \in {"sleep", "http", "custom"} THEN NoActivation("cancelled") ELSE a

CancelledPosts(t, cs, ps) ==
  [n \in 1 .. Len(ps) |->
     IF ps[n].status = "running" /\ cs[ps[n].call].proc = t
       THEN [ps[n] EXCEPT !.status = "cancelled"]
       ELSE ps[n]]

CancelledCalls(t, cs) ==
  [c \in 1 .. Len(cs) |->
     IF cs[c].proc = t /\ cs[c].status = "running"
       THEN [cs[c] EXCEPT !.status = "cancelled"]
       ELSE cs[c]]

\* kill_loop without the cancel of line 179: the handle is cleared and the
\* task keeps running
kill_loop_NoCancel(l, a, cs, ps) ==
  [loop |-> 0, act |-> a, calls |-> cs, posts |-> ps]

\* Poster.kill_loop, as a function of the part of the state it works on: the
\* handle l, the coroutines a and the histories cs, ps of their calls
kill_loop(l, a, cs, ps) ==
  IF l # 0
    THEN [loop |-> 0, act |-> [a EXCEPT ![l] = Cancelled(@)],
          calls |-> CancelledCalls(l, cs), posts |-> CancelledPosts(l, cs, ps)]
    ELSE [loop |-> l, act |-> a, calls |-> cs, posts |-> ps]

KillLoop ==
  /\ LET k == kill_loop(loop, act, calls, posts)
     IN  /\ loop' = k.loop
         /\ act' = k.act
         /\ calls' = k.calls
         /\ posts' = k.posts
  /\ UNCHANGED <<api_keys, has_custom, registered, resolved, reader, identity, requests, events,
                 custom_calls, lookups, key_reads, started, keyops, key_result>>
  /\ UNCHANGED <<tasks, listeners, methods, reg, regs, dispatches>>

\* start_loop without the kill_loop() of line 170
StartLoop_NoKill ==
  /\ started < MaxLoops
  /\ started' = started + 1
  /\ loop' = started + 1
  /\ act' = [act EXCEPT ![started + 1] = NoActivation("sleep")]
  /\ UNCHANGED <<calls, posts>>
  /\ UNCHANGED <<api_keys, has_custom, registered, resolved, reader, identity, requests, events,
                 custom_calls, lookups, key_reads, keyops, key_result>>
  /\ UNCHANGED <<tasks, listeners, methods, reg, regs, dispatches>>

\* start_loop with an AsyncLoop._job that awaits the callback before its
\* first sleep (lines 20 and 21 exchanged): the first loop posts at once
StartLoop_PostsFirst ==
  /\ started < MaxLoops
  /\ loop = 0
  /\ started' = started + 1
  /\ loop' = started + 1
  /\ Begin(started + 1, "tick", NoneStr, CHOOSE m \in Metrics : TRUE)
  /\ UNCHANGED <<api_keys, has_custom, registered, resolved, reader, identity, keyops, key_result>>
  /\ UNCHANGED registry_vars

\* Poster.start_loop: kill_loop(), then a new AsyncLoop whose task sleeps
StartLoop ==
  /\ started < MaxLoops
  /\ started' = started + 1
  /\ LET k == kill_loop(loop, act, calls, posts)
     IN  /\ loop' = started + 1
         /\ act' = [k.act EXCEPT ![started + 1] = NoActivation("sleep")]
         /\ calls' = k.calls
         /\ posts' = k.posts
  /\ UNCHANGED <<api_keys, has_custom, registered, resolved, reader, identity, requests, events,
                 custom_calls, lookups, key_reads, keyops, key_result>>
  /\ UNCHANGED <<tasks, listeners, methods, reg, regs, dispatches>>

KeyResult(op, service, kind, val) == [op |-> op, service |-> service, kind |-> kind, val |-> val]

\* the three operations on a key store: the store they leave and what they
\* return or raise.  api_keys is a plain dict, so a key is present only
\* when the very same string was stored.
KeyOp(store, result) == [store |-> store, result |-> result]

\* Poster.set_key, lines 121-133
set_key(store, service, key) ==
  KeyOp(Store(store, service, key), KeyResult("set_key", service, "returned", key))

\* get_key as dict.pop(service): the entry it returns leaves the store
get_key_Pops(store, service) ==
  IF HasKey(store, service)
    THEN KeyOp(Delete(store, service),
               KeyResult("get_key", service, "returned", Lookup(store, service)))
    ELSE KeyOp(store, KeyResult("get_key", service, "raised", "KeyError"))

\* Poster.get_key, lines 135-144
get_key(store, service) ==
  IF HasKey(store, service)
    THEN KeyOp(store, KeyResult("get_key", service, "returned", Lookup(store, service)))
    ELSE KeyOp(store, KeyResult("get_key", service, "raised", "KeyError"))

\* remove_key as dict.pop(service, None): an absent key is not an error
remove_key_Pop(store, service) ==
  IF HasKey(store, service)
    THEN KeyOp(Delete(store, service),
               KeyResult("remove_key", service, "returned", Lookup(store, service)))
    ELSE KeyOp(store, KeyResult("remove_key", service, "returned", NoneStr))

\* remove_key that forgets the whole store
remove_key_Clear(store, service) ==
  IF HasKey(store, service)
    THEN KeyOp(<<>>, KeyResult("remove_key", service, "returned", Lookup(store, service)))
    ELSE KeyOp(store, KeyResult("remove_key", service, "raised", "KeyError"))

\* Poster.remove_key, lines 146-157: the read of line 155 raises KeyError
\* before anything is deleted
remove_key(store, service) ==
  IF HasKey(store, service)
    THEN KeyOp(Delete(store, service),
               KeyResult("remove_key", service, "returned", Lookup(store, service)))
    ELSE KeyOp(store, KeyResult("remove_key", service, "raised", "KeyError"))

\* user code calls one of them
KeyCall(op) ==
  /\ keyops < MaxKeyOps
  /\ keyops' = keyops + 1
  /\ api_keys' = op.store
  /\ key_result' = op.result
  /\ UNCHANGED <<has_custom, registered, resolved, reader, identity, loop, act, calls, requests, events,
                 custom_calls, lookups, key_reads, started, posts>>
  /\ UNCHANGED <<tasks, listeners, methods, reg, regs, dispatches>>

SetKey(service, key) == KeyCall(set_key(api_keys, service, key))
GetKey(service) == KeyCall(get_key(api_keys, service))
RemoveKey(service) == KeyCall(remove_key(api_keys, service))

\* ------------------------------------------------ actions: EventHandler
RegResult(op, arg, name, kind, val) ==
  [op |-> op, arg |-> arg, name |-> name, kind |-> kind, val |-> val]

\* user code calls poster.event(x): with a function (the bare decorator) or
\* with an event name, which returns the decorator
EventCall(x) ==
  /\ callable(x) => regs < MaxRegs
  /\ regs' = IF callable(x) THEN regs + 1 ELSE regs
  /\ LET r == event(listeners, x)
     IN  /\ listeners' = r.listeners
         /\ reg' = RegResult("event", x, "", r.kind, r.val)
  /\ UNCHANGED <<api_keys, has_custom, registered, resolved, reader, identity, loop, act, calls, requests,
                 events, custom_calls, lookups, key_reads, started, keyops, key_result,
                 posts, methods, tasks, dispatches>>

\* user code applies the decorator event(name) returned to the object coro
InnerCall(coro) ==
  /\ reg.kind = "returned" /\ reg.val.kind = "inner"
  /\ regs < MaxRegs
  /\ regs' = regs + 1
  /\ LET r == inner(listeners, reg.val.name, coro)
     IN  /\ listeners' = r.listeners
         /\ reg' = RegResult("inner", coro, reg.val.name, r.kind, r.val)
  /\ UNCHANGED <<api_keys, has_custom, registered, resolved, reader, identity, loop, act, calls, requests,
                 events, custom_calls, lookups, key_reads, started, keyops, key_result,
                 posts, methods, tasks, dispatches>>

\* user code calls poster.dispatch(ev, ...)
Dispatch(ev) ==
  /\ dispatches < MaxDispatches
  /\ Len(tasks) + Len(dispatch(listeners, methods, has_custom, ev, 0)) <= MaxTasks
  /\ dispatches' = dispatches + 1
  /\ Dispatched(<<Event(ev, NoValue, 0)>>)
  /\ UNCHANGED <<api_keys, has_custom, registered, resolved, reader, identity, loop, act, calls, requests,
                 custom_calls, lookups, key_reads, started, keyops, key_result,
                 posts, listeners, methods, reg, regs>>

\* the event loop gives a scheduled task its first turn, in the order of
\* scheduling: _run_event awaits the listener
StartHandler(t) ==
  /\ t \in 1 .. Len(tasks)
  /\ tasks[t].state = "pending"
  /\ \A u \in 1 .. t - 1 : tasks[u].state # "pending"
  /\ tasks' = [tasks EXCEPT ![t].state = "running"]
  /\ UNCHANGED <<api_keys, has_custom, registered, resolved, reader, identity, loop, act, calls, requests,
                 events, custom_calls, lookups, key_reads, started, keyops, key_result,
                 posts, listeners, methods, reg, regs, dispatches>>

\* FinishHandler when the listener's exception is raised into the code that
\* dispatched and ends the run of the handlers of that dispatch: the tasks
\* not yet finished never run
FinishHandler_Propagates(t, ok) ==
  /\ t \in 1 .. Len(tasks)
  /\ tasks[t].state = "running"
  /\ tasks' = [u \in 1 .. Len(tasks) |->
                 IF u = t THEN run_event(tasks[t], ok)
                 ELSE IF ~ok /\ tasks[u].dispatch = tasks[t].dispatch
                                /\ tasks[u].state # "done"
                   THEN [tasks[u] EXCEPT !.state = "done"]
                 ELSE tasks[u]]
  /\ UNCHANGED <<api_keys, has_custom, registered, resolved, reader, identity, loop, act, calls, requests,
                 events, custom_calls, lookups, key_reads, started, keyops, key_result,
                 posts, listeners, methods, reg, regs, dispatches>>

\* the listener task t awaits returns (ok) or raises
FinishHandler(t, ok) ==
  /\ t \in 1 .. Len(tasks)
  /\ tasks[t].state = "running"
  /\ tasks' = [tasks EXCEPT ![t] = run_event(@, ok)]
  /\ UNCHANGED <<api_keys, has_custom, registered, resolved, reader, identity, loop, act, calls, requests,
                 events, custom_calls, lookups, key_reads, started, keyops, key_result,
                 posts, listeners, methods, reg, regs, dispatches>>

\* user code calls Service.get(key)
Resolved(key, val) == [key |-> key, val |-> val]
Resolve(key) ==
  /\ resolved' = Resolved(key, Service_get_outcome(SERVICES, key))
  /\ UNCHANGED <<api_keys, has_custom, registered, reader, identity, loop, act, calls, requests,
                 events, custom_calls, lookups, key_reads, started, keyops, key_result,
                 posts, tasks, listeners, methods, reg, regs, dispatches>>

\* user code calls a read operation on its Service instance and awaits it
Reader(token, n, last) == [token |-> token, calls |-> n, last |-> last]
ReadResult(op, k, val) == [op |-> op, k |-> k, val |-> val]
ReadCall(op) ==
  LET out == Service_request(reader.token, ReadOptions(op, reader.token, "1234567890"))
  IN  /\ reader.calls < MaxReads
      /\ reader' = Reader(reader.token, reader.calls + 1, ReadResult(op, out.k, out.val))
      /\ requests' = IF out.k = "http"
                        THEN Append(requests, [call |-> 0, request |-> out.request])
                        ELSE requests
      /\ UNCHANGED <<api_keys, has_custom, registered, resolved, identity, loop, act, calls,
                     events, custom_calls, lookups, key_reads, started, keyops, key_result,
                     posts, tasks, listeners, methods, reg, regs, dispatches>>

\* ------------------------------------------------------- the specification
Init ==
  /\ api_keys \in InitialStores
  /\ has_custom \in BOOLEAN
  /\ registered \in {<<>>, <<"CustomService">>}
  /\ resolved = Resolved(NoneStr, NoValue)
  /\ reader = Reader(NoneStr, 0, ReadResult("", "none", NoValue))
  /\ identity \in Identities
  /\ loop = 0
  /\ act = [p \in Procs |-> NoActivation(IF p = 0 THEN "idle" ELSE "unborn")]
  /\ calls = <<>>
  /\ requests = <<>>
  /\ events = <<>>
  /\ custom_calls = <<>>
  /\ lookups = <<>>
  /\ key_reads = <<>>
  /\ started = 0
  /\ keyops = 0
  /\ key_result = KeyResult("none", NoneStr, "none", NoneStr)
  /\ posts = <<>>
  /\ listeners = NoListeners
  /\ methods = {}
  /\ tasks = <<>>
  /\ reg = RegResult("none", NoneObj, "", "none", NoneObj)
  /\ regs = 0
  /\ dispatches = 0

Next ==
  \/ \E service \in ServiceArgs, m \in Metrics : CallManualPost(service, m)
  \/ \E service \in ServiceArgs, m \in Metrics : CallPost(service, m)
  \/ \E p \in Tasks, m \in Metrics : Tick(p, m)
  \/ \E p \in Procs, status \in HttpOutcomes : HttpComplete(p, status)
  \/ \E p \in Procs, ok \in BOOLEAN : CustomComplete(p, ok)
  \/ StartLoop
  \/ KillLoop
  \/ \E service \in StoreKeys, key \in Credentials : SetKey(service, key)
  \/ \E service \in StoreKeys : GetKey(service)
  \/ \E service \in StoreKeys : RemoveKey(service)

Spec == Init /\ [][Next]_vars


\* the posting pipeline alone: user code calls post / manual_post, one call
\* after the other, on every initial configuration
NextPost ==
  \/ \E service \in ServiceArgs, m \in Metrics : CallManualPost(service, m)
  \/ \E service \in ServiceArgs, m \in Metrics : CallPost(service, m)
  \/ \E p \in Procs, status \in HttpOutcomes : HttpComplete(p, status)
  \/ \E p \in Procs, ok \in BOOLEAN : CustomComplete(p, ok)

SpecPost == Init /\ [][NextPost]_vars

\* the recurring loop alone: start_loop, kill_loop and the wake-ups of the
\* AsyncLoop tasks, on every initial configuration
NextLoop ==
  \/ \E p \in Tasks, m \in Metrics : Tick(p, m)
  \/ StartLoop
  \/ KillLoop

SpecLoop == Init /\ [][NextLoop]_vars


\* the event handler: listeners are registered and events dispatched, by
\* user code and by a targeted post to Top.gg, on a Poster whose class may
\* define on_post and which may have a custom-post handler
InitEvents ==
  /\ api_keys = <<[service |-> "topgg", key |-> "T1"]>>
  /\ has_custom \in BOOLEAN
  /\ registered = <<>>
  /\ resolved = Resolved(NoneStr, NoValue)
  /\ reader = Reader(NoneStr, 0, ReadResult("", "none", NoValue))
  /\ identity = Identity(Poster_init("1234567890", TRUE, NoneInt, NoneInt))
  /\ loop = 0
  /\ act = [p \in Procs |-> NoActivation(IF p = 0 THEN "idle" ELSE "unborn")]
  /\ calls = <<>>
  /\ requests = <<>>
  /\ events = <<>>
  /\ custom_calls = <<>>
  /\ lookups = <<>>
  /\ key_reads = <<>>
  /\ started = 0
  /\ keyops = 0
  /\ key_result = KeyResult("none", NoneStr, "none", NoneStr)
  /\ posts = <<>>
  /\ listeners = NoListeners
  /\ methods \in ClassMethods
  /\ tasks = <<>>
  /\ reg = RegResult("none", NoneObj, "", "none", NoneObj)
  /\ regs = 0
  /\ dispatches = 0

\* the registration API alone
NextRegister ==
  \/ \E x \in EventArgs : EventCall(x)
  \/ \E coro \in Handlers : InnerCall(coro)

SpecRegister == InitEvents /\ [][NextRegister]_vars

\* registration of coroutine functions with the bare decorator, dispatch
\* and the runs of the scheduled tasks
NextEvents ==
  \/ \E x \in {h \in Handlers : iscoroutinefunction(h)} : EventCall(x)
  \/ \E ev \in DispatchArgs : Dispatch(ev)
  \/ \E t \in 1 .. Len(tasks) : StartHandler(t)
  \/ \E t \in 1 .. Len(tasks), ok \in BOOLEAN : FinishHandler(t, ok)

SpecEvents == InitEvents /\ [][NextEvents]_vars

\* the descriptors of the registry: one targeted post per service, on a
\* Poster or ClientPoster built in every way of Constructions whose store
\* holds a credential under the first alias of every service
DescriptorKeys ==
  << "bladebotlist", "blist", "botsondiscord", "carbonitex",
     "dbots", "discordboats", "discordbotlist", "dbleu",
     "discordbotsgg", "discordextremelist", "discordlabs", "discordlistspace",
     "discordlistology", "discordservices", "botsfordiscord", "disforge",
     "fateslist", "infinitybotlist", "listcord", "motion",
     "spacebotslist", "topcord", "topgg", "voidbots",
     "wonderbotlist", "yabl" >>
DescriptorStore == [i \in 1 .. Len(DescriptorKeys) |-> [service |-> DescriptorKeys[i], key |-> "T1"]]

\* the variables other than the configuration, before any call
Fresh ==
  /\ resolved = Resolved(NoneStr, NoValue)
  /\ reader = Reader(NoneStr, 0, ReadResult("", "none", NoValue))
  /\ loop = 0
  /\ act = [p \in Procs |-> NoActivation(IF p = 0 THEN "idle" ELSE "unborn")]
  /\ calls = <<>>
  /\ requests = <<>>
  /\ events = <<>>
  /\ custom_calls = <<>>
  /\ lookups = <<>>
  /\ key_reads = <<>>
  /\ started = 0
  /\ keyops = 0
  /\ key_result = KeyResult("none", NoneStr, "none", NoneStr)
  /\ posts = <<>>
  /\ listeners = NoListeners
  /\ methods = {}
  /\ tasks = <<>>
  /\ reg = RegResult("none", NoneObj, "", "none", NoneObj)
  /\ regs = 0
  /\ dispatches = 0

InitDescriptors ==
  /\ api_keys = DescriptorStore
  /\ has_custom = FALSE
  /\ registered = <<>>
  /\ identity \in {Identity(self) : self \in Constructions}
  /\ Fresh

NextDescriptors ==
  \/ \E i \in 1 .. Len(DescriptorKeys), m \in Metrics : CallManualPost(DescriptorKeys[i], m)
  \/ HttpComplete(0, 200)

SpecDescriptors == InitDescriptors /\ [][NextDescriptors]_vars

\* the registry alone: user code resolves keys with Service.get, and makes
\* targeted posts to keys no descriptor claims, on a registry with and
\* without a descriptor registered by the application
ResolveArgs ==
  UNION {aliases(BuiltinServices[i]) : i \in 1 .. Len(BuiltinServices)}
  \cup aliases("CustomService")
  \cup {"TopGG", "DBots", "TOP.GG", "Discord.Bots.GG", " TopGG ", " topgg", "topgg ",
        "", "nosuch", "top", "topgg.com"}
UnclaimedArgs == {"nosuch", "topgg.com", " topgg"}

InitResolve ==
  /\ api_keys \in { <<[service |-> "topgg", key |-> "T1"]>>,
                     <<[service |-> "nosuch", key |-> "T1"], [service |-> " topgg", key |-> "T2"]>> }
  /\ has_custom = FALSE
  /\ registered \in {<<>>, <<"CustomService">>}
  /\ identity = Identity(Poster_init("1234567890", TRUE, NoneInt, NoneInt))
  /\ Fresh

NextResolve ==
  \/ \E key \in ResolveArgs : Resolve(key)
  \/ \E service \in UnclaimedArgs : CallManualPost(service, CHOOSE m \in Metrics : m.user_count = NoneInt)

SpecResolve == InitResolve /\ [][NextResolve]_vars

\* the key store: set_key, get_key and remove_key on stores with none, one
\* and two entries, with targeted posts in between
KeyArgs == {"topgg", "TopGG", "dbots", "unconfigured"}
KeyStores ==
  { <<>>,
    <<[service |-> "topgg", key |-> "T1"]>>,
    <<[service |-> "dbots", key |-> "T2"], [service |-> "topgg", key |-> "T1"]>>,
    <<[service |-> "TopGG", key |-> "T1"], [service |-> "unconfigured", key |-> ""]>> }

InitKeys ==
  /\ api_keys \in KeyStores
  /\ has_custom = FALSE
  /\ registered = <<>>
  /\ identity = Identity(Poster_init("1234567890", TRUE, NoneInt, NoneInt))
  /\ Fresh

NextKeys ==
  \/ \E service \in KeyArgs, key \in Credentials : SetKey(service, key)
  \/ \E service \in KeyArgs : GetKey(service)
  \/ \E service \in KeyArgs : RemoveKey(service)
  \/ \E service \in {"topgg", "TopGG"} :
       CallManualPost(service, CHOOSE m \in Metrics : m.user_count = NoneInt)
  \/ \E status \in {200, 500} : HttpComplete(0, status)

SpecKeys == InitKeys /\ [][NextKeys]_vars

\* the transport: targeted posts, by post and by manual_post, whose requests
\* are answered with statuses of every class
TransportStatuses == {100, 199, 200, 204, 299, 300, 304, 400, 401, 403, 404, 500, 503}
TransportKeys == {"topgg", "dbots", "discordbotlist"}

InitTransport ==
  /\ api_keys = <<[service |-> "topgg", key |-> "T1"], [service |-> "dbots", key |-> "T2"],
                  [service |-> "discordbotlist", key |-> "T3"]>>
  /\ has_custom = FALSE
  /\ registered = <<>>
  /\ identity \in Identities
  /\ Fresh

NextTransport ==
  \/ \E service \in TransportKeys, m \in Metrics : CallManualPost(service, m)
  \/ \E service \in TransportKeys, m \in Metrics : CallPost(service, m)
  \/ \E status \in TransportStatuses : HttpComplete(0, status)

SpecTransport == InitTransport /\ [][NextTransport]_vars

\* the recurring loop next to the posting pipeline: a Poster with two keys
\* and a custom-post handler, on which user code posts and starts and kills
\* the loop while requests are answered and the handler ends
InitTimer ==
  /\ api_keys = <<[service |-> "topgg", key |-> "T1"], [service |-> "dbots", key |-> "T2"]>>
  /\ has_custom = TRUE
  /\ registered = <<>>
  /\ identity = Identity(Poster_init("1234567890", TRUE, 3, 8))
  /\ Fresh

NextTimer ==
  \/ \E service \in {NoneStr, "topgg", "custom"}, m \in Metrics : CallManualPost(service, m)
  \/ \E p \in Tasks, m \in Metrics : Tick(p, m)
  \/ \E p \in Procs, status \in {200, 500, NetworkFailure} : HttpComplete(p, status)
  \/ \E p \in Procs, ok \in BOOLEAN : CustomComplete(p, ok)
  \/ StartLoop
  \/ KillLoop

SpecTimer == InitTimer /\ [][NextTimer]_vars

\* every operation of a Poster next to the others: user code posts (to one
\* service, to all, to the custom handler), dispatches, starts and kills the
\* loop and works on the key store, one call after the other, while loop
\* tasks wake up
FrameMetrics == CHOOSE m \in Metrics : m.user_count # NoneInt
InitFrame ==
  /\ api_keys = <<[service |-> "topgg", key |-> "T1"]>>
  /\ has_custom = TRUE
  /\ registered = <<>>
  /\ identity = Identity(Poster_init("1234567890", TRUE, 3, 8))
  /\ Fresh

\* user code is one coroutine that configures the key store, then starts and
\* kills loops, then posts, then dispatches; it makes its next call when the
\* previous one has returned or raised
UserIdle == act[0].pc = "idle"
Configuring == UserIdle /\ started = 0 /\ UserCalls = 0 /\ dispatches = 0
Looping == UserIdle /\ UserCalls = 0 /\ dispatches = 0
Posting == UserIdle /\ dispatches = 0
NextFrame ==
  \/ \E service \in {NoneStr, "topgg", "custom"} : Posting /\ CallManualPost(service, FrameMetrics)
  \/ \E service \in {NoneStr, "topgg"} : Posting /\ CallPost(service, FrameMetrics)
  \/ \E p \in Tasks : Tick(p, FrameMetrics)
  \/ \E p \in Procs, status \in {200, 500} : HttpComplete(p, status)
  \/ \E p \in Procs, ok \in BOOLEAN : CustomComplete(p, ok)
  \/ Looping /\ StartLoop
  \/ Looping /\ loop # 0 /\ KillLoop
  \/ \E ev \in {"post", "custom_post"} : UserIdle /\ Dispatch(ev)
  \/ Configuring /\ SetKey("dbots", "T3")
  \/ \E service \in {"topgg", "dbots"} : Configuring /\ GetKey(service)
  \/ \E service \in {"topgg", "dbots"} : Configuring /\ RemoveKey(service)

SpecFrame == InitFrame /\ [][NextFrame]_vars

\* sharded bots: targeted posts on Posters built with shard ids 0, 1 and 3 of
\* 4 or 8 shards and on a ClientPoster whose adapter reports shard 0 of 8, to
\* services that send shard fields and to one that does not
ShardIds == {0, 1, 3}
ShardCounts == {4, 8}
ShardKeys == {"topgg", "discordbotsgg", "carbonitex"}
InitShards ==
  /\ api_keys = <<[service |-> "topgg", key |-> "T1"],
                  [service |-> "discordbotsgg", key |-> "T2"],
                  [service |-> "carbonitex", key |-> "T3"]>>
  /\ has_custom = FALSE
  /\ registered = <<>>
  /\ identity \in
       {Identity(Poster_init("1234567890", TRUE, id, n)) : id \in ShardIds, n \in ShardCounts}
       \cup {Identity(ClientPoster_init(Filler("1234567890", 0, 8), TRUE, NoneInt, NoneInt))}
  /\ Fresh

NextShards ==
  \/ \E service \in ShardKeys, m \in Metrics : CallManualPost(service, m)
  \/ \E status \in {200, 500} : HttpComplete(0, status)

SpecShards == InitShards /\ [][NextShards]_vars

\* the read operations: user code builds a Service instance with or without
\* a token and calls read operations on it
ReaderTokens == {NoneStr, "", "T1", "T2"}
InitReads ==
  /\ api_keys = <<>>
  /\ has_custom = FALSE
  /\ registered = <<>>
  /\ identity = Identity(Poster_init("1234567890", TRUE, NoneInt, NoneInt))
  /\ loop = 0
  /\ act = [p \in Procs |-> NoActivation(IF p = 0 THEN "idle" ELSE "unborn")]
  /\ calls = <<>>
  /\ requests = <<>>
  /\ events = <<>>
  /\ custom_calls = <<>>
  /\ lookups = <<>>
  /\ key_reads = <<>>
  /\ started = 0
  /\ keyops = 0
  /\ key_result = KeyResult("none", NoneStr, "none", NoneStr)
  /\ posts = <<>>
  /\ listeners = NoListeners
  /\ methods = {}
  /\ tasks = <<>>
  /\ reg = RegResult("none", NoneObj, "", "none", NoneObj)
  /\ regs = 0
  /\ dispatches = 0
  /\ resolved = Resolved(NoneStr, NoValue)
  /\ reader \in {Reader(token, 0, ReadResult("", "none", NoValue)) : token \in ReaderTokens}

NextReads == \E op \in ReadOps : ReadCall(op)

SpecReads == InitReads /\ [][NextReads]_vars

\* ------------------------------------------------------------- histories
CallIds == 1 .. Len(calls)
Done(c) == calls[c].status \in {"returned", "raised"}
UserCall(c) == calls[c].api \in {"manual_post", "post"}

\* the branch of manual_post call c took, from its arguments and the
\* configuration it was made on
IsCustom(c) == calls[c].service = "custom" /\ has_custom
IsFanout(c) == ~IsCustom(c) /\ Len(calls[c].store) # 0 /\ ~TruthyStr(calls[c].service)
IsTargeted(c) == ~IsCustom(c) /\ Len(calls[c].store) # 0 /\ TruthyStr(calls[c].service)

\* the keys a post to all services is to go through, in order
FanoutKeys(c) == Keys(calls[c].store) \o (IF has_custom THEN <<"custom">> ELSE <<>>)

Of(c, log) == SelectSeq(log, LAMBDA e : e.call = c)
RequestsOf(c) == Of(c, requests)
EventsOf(c) == Of(c, events)
PostsOf(c) == Of(c, posts)
PostEventsOf(c) == SelectSeq(events, LAMBDA e : e.call = c /\ e.name \in {"post", "post_fail"})
AutoEventsOf(c) == SelectSeq(events, LAMBDA e : e.call = c /\ e.name \in {"auto_post", "auto_post_fail"})

Failed(post) == post.status = "raised"
NoPostFailed(c) == \A n \in 1 .. Len(posts) : posts[n].call = c => ~Failed(posts[n])

\* the credential of one request
Credential(req) == {h[2] : h \in {x \in req.request.headers : x[1] = "Authorization"}}
\* the server count one request carries
ServerCounts(req) ==
  {f[2] : f \in {x \in req.request.payload : x[1] \in {"server_count", "guildCount"}}}

\* ------------------------------------------------------------------ C1
\* C1: on a Poster whose key store is {topgg: T1, dbots: T2}, in that order,
\* and that has no custom-post handler, a finished manual_post(server_count=42)
\* with no service, none of whose posts failed, has issued exactly two
\* requests: one to Top.gg carrying server count 42 and credential T1, then
\* one to DBots carrying 42 and T2.
C1_FanoutIssuesOneRequestPerKey ==
  \A c \in CallIds :
    ( /\ calls[c].api = "manual_post"
      /\ calls[c].service = NoneStr
      /\ calls[c].m.server_count = 42
      /\ calls[c].store = <<[service |-> "topgg", key |-> "T1"],
                            [service |-> "dbots", key |-> "T2"]>>
      /\ ~has_custom
      /\ Done(c)
      /\ NoPostFailed(c) )
    => /\ Len(RequestsOf(c)) = 2
       /\ RequestsOf(c)[1].request.service = "TopGG"
       /\ Credential(RequestsOf(c)[1]) = {"T1"}
       /\ ServerCounts(RequestsOf(c)[1]) = {42}
       /\ RequestsOf(c)[2].request.service = "DBots"
       /\ Credential(RequestsOf(c)[2]) = {"T2"}
       /\ ServerCounts(RequestsOf(c)[2]) = {42}

\* ------------------------------------------------------------------ C2
\* C2: a finished manual_post with no service (None or '') on a non-empty
\* key store, none of whose per-service posts failed, has returned (not
\* raised) a collection holding one result per key of the store, plus one
\* for "custom" when a custom-post handler exists.
C2_FanoutReturnsOneResultPerKey ==
  \A c \in CallIds :
    (UserCall(c) /\ IsFanout(c) /\ Done(c) /\ NoPostFailed(c))
    => /\ calls[c].status = "returned"
       /\ calls[c].val.kind = "collection"
       /\ Len(calls[c].val.items) = Len(FanoutKeys(c))

\* ------------------------------------------------------------------ C3
\* C3: within one post to all services the per-service posts are started one
\* at a time in the insertion order of the key store, the custom post last:
\* the services posted to so far are always a prefix of that order, only the
\* last of them can be in flight, and a finished post to all services none
\* of whose posts failed has been through every key.
C3_FanoutPostsInKeyOrder ==
  \A c \in CallIds :
    IsFanout(c) =>
      LET ps == PostsOf(c)
          ks == FanoutKeys(c)
      IN  /\ Len(ps) <= Len(ks)
          /\ \A n \in 1 .. Len(ps) : ps[n].service = ks[n]
          /\ \A n \in 1 .. Len(ps) : ps[n].status = "running" => n = Len(ps)
          /\ (Done(c) /\ NoPostFailed(c)) => Len(ps) = Len(ks)

C5_EmptyStoreAlwaysFails ==
  \A c \in CallIds :
    (UserCall(c) /\ Len(calls[c].store) = 0)
    => /\ calls[c].status = "raised"
       /\ calls[c].val.type = "APIKeyException"
       /\ RequestsOf(c) = <<>>
       /\ EventsOf(c) = <<>>

\* C5 as amended: a manual_post on an empty key store, other than
\* manual_post(service="custom") on a Poster with a custom-post handler, fails
\* with APIKeyException('No API Keys available') before its first await; it
\* issues no HTTP request, dispatches no event, resolves no service and does
\* not invoke the custom-post handler.
C5_EmptyStoreFailsUnlessCustom ==
  \A c \in CallIds :
    (UserCall(c) /\ Len(calls[c].store) = 0 /\ ~IsCustom(c))
    => /\ calls[c].status = "raised"
       /\ calls[c].val = APIKeyException(<<"No API Keys available">>)
       /\ RequestsOf(c) = <<>>
       /\ EventsOf(c) = <<>>
       /\ Of(c, lookups) = <<>>
       /\ Of(c, custom_calls) = <<>>

\* a post to all services on an empty key store of a Poster that has a
\* custom-post handler has failed
C5_Witness ==
  \E c \in CallIds :
    /\ UserCall(c) /\ Len(calls[c].store) = 0 /\ has_custom
    /\ calls[c].service = NoneStr
    /\ calls[c].status = "raised"

\* ------------------------------------------------------------------ C6
\* C6: manual_post(service="custom") on a Poster that has a custom-post
\* handler invokes the handler exactly once, with the call's server_count,
\* user_count and voice_connections; it resolves no service, reads no key
\* and issues no request; what it returns is the handler's result and what it
\* raises is the handler's exception.  This holds for every key store (empty,
\* or with a key named "custom") and every registry.
C6_CustomPostBypasses ==
  \A c \in CallIds :
    (UserCall(c) /\ IsCustom(c))
    => /\ Of(c, custom_calls) = <<[call |-> c, m |-> calls[c].m]>>
       /\ Of(c, lookups) = <<>>
       /\ Of(c, key_reads) = <<>>
       /\ RequestsOf(c) = <<>>
       /\ EventsOf(c) = <<>>
       /\ Done(c) =>
            \E n \in 1 .. Len(custom_calls) :
              /\ custom_calls[n].call = c
              /\ calls[c].val.req = n
              /\ calls[c].val.kind = (IF calls[c].status = "returned" THEN "custom" ELSE "error")
              /\ calls[c].val.type = (IF calls[c].status = "returned"
                                        THEN "CustomResult" ELSE "CustomHandlerError")

\* the custom post has returned on a Poster whose key store has a key named
\* "custom" and whose registry has a descriptor with the alias 'custom'
C6_Witness ==
  \E c \in CallIds :
    /\ UserCall(c) /\ IsCustom(c)
    /\ HasKey(calls[c].store, "custom")
    /\ Service_get(SERVICES, "custom") # NoneStr
    /\ calls[c].status = "returned"

\* ------------------------------------------------------------------ C7
\* the reply to the request of targeted call c: a status, NetworkFailure, or
\* NoReply
ReplyOf(c) == IF RequestsOf(c) = <<>> THEN NoReply ELSE PostsOf(c)[1].reply
\* the position in requests of the request of call c
RequestIndex(c) == CHOOSE n \in 1 .. Len(requests) : requests[n].call = c

\* C7: a finished targeted manual_post whose request was answered with a 2xx
\* status has returned the response to that request, and has dispatched
\* exactly one event, a post event carrying that same response.
C7_TargetedSuccess ==
  \A c \in CallIds :
    (UserCall(c) /\ IsTargeted(c) /\ Done(c) /\ ReplyOf(c) >= 200 /\ ReplyOf(c) < 300)
    => /\ calls[c].status = "returned"
       /\ calls[c].val.kind = "response"
       /\ calls[c].val.status = ReplyOf(c)
       /\ calls[c].val.req = RequestIndex(c)
       /\ EventsOf(c) = <<Event("post", calls[c].val, c)>>

C7_Witness ==
  \E c \in CallIds :
    /\ UserCall(c) /\ IsTargeted(c) /\ Done(c) /\ ReplyOf(c) = 200
    /\ calls[c].service = "topgg"

\* ------------------------------------------------------------------ C8
\* C8: a finished targeted manual_post whose request failed (a non-2xx
\* status, or an exception of the HTTP client) has raised the error the
\* transport raised, and has dispatched exactly one event, a post_fail event
\* carrying that same error.
C8_TargetedFailure ==
  \A c \in CallIds :
    (UserCall(c) /\ IsTargeted(c) /\ Done(c) /\ RequestsOf(c) # <<>>
       /\ ~(ReplyOf(c) >= 200 /\ ReplyOf(c) < 300))
    => /\ calls[c].status = "raised"
       /\ calls[c].val = HTTPClient_request(ReplyOf(c), RequestIndex(c))
       /\ EventsOf(c) = <<Event("post_fail", calls[c].val, c)>>

\* ------------------------------------------------------------------ C9
\* C9: as long as neither kill_loop nor another start_loop is called, the
\* recurring loop never stops, whatever the outcome of its posts: the task of
\* the AsyncLoop the Poster holds has not ended.
C9_LoopNeverStops == loop # 0 => act[loop].pc \in {"sleep", "http", "custom"}

\* ----------------------------------------------------------------- C10
\* C10: a finished timer run on a non-empty key store none of whose
\* per-service posts failed has dispatched exactly one auto_post event,
\* carrying the collected responses, and no auto_post_fail event.
C10_TimerRunDispatchesAutoPost ==
  \A c \in CallIds :
    (calls[c].api = "tick" /\ Done(c) /\ Len(calls[c].store) # 0 /\ NoPostFailed(c))
    => /\ AutoEventsOf(c) = <<Event("auto_post", calls[c].val, c)>>
       /\ calls[c].val.kind = "collection"

\* ----------------------------------------------------------------- C11
\* C11: a timer run whose post() failed has dispatched exactly one
\* auto_post_fail event, carrying the error post() raised, and no auto_post
\* event; the error was not suppressed: the loop task that made the run has
\* ended with that same error.
C11_TimerFailureDispatchesAutoPostFail ==
  \A c \in CallIds :
    (calls[c].api = "tick" /\ calls[c].status = "raised")
    => /\ calls[c].val.kind = "error"
       /\ AutoEventsOf(c) = <<Event("auto_post_fail", calls[c].val, c)>>
       /\ act[calls[c].proc].pc = "failed"
       /\ act[calls[c].proc].exc = calls[c].val

\* a timer run on an empty key store has failed with APIKeyException and the
\* loop was killed afterwards
C11_Witness ==
  \E c \in CallIds :
    /\ calls[c].api = "tick" /\ calls[c].status = "raised"
    /\ calls[c].val.type = "APIKeyException"
    /\ loop = 0

\* ----------------------------------------------------------------- C12
\* the AsyncLoop tasks that are active: created, and neither cancelled nor
\* ended
ActiveStates == {"sleep", "http", "custom"}
ActiveTasks == {p \in Tasks : act[p].pc \in ActiveStates}

\* C12: after any sequence of start_loop and kill_loop calls at most one loop
\* task is active, and it is the one the Poster holds the handle of; every
\* start_loop leaves exactly one active task, the new one, the task held
\* before being no longer active.
C12_AtMostOneActiveLoop ==
  /\ [](/\ Cardinality(ActiveTasks) <= 1
        /\ ActiveTasks \subseteq (IF loop = 0 THEN {} ELSE {loop}))
  /\ [][started' = started + 1
          => /\ loop' = started'
             /\ {p \in Tasks : act'[p].pc \in ActiveStates} = {loop'}
             /\ loop # 0 => act'[loop].pc \notin ActiveStates]_vars

\* start_loop was called twice in a row: the first task is cancelled, the
\* second sleeps
C12_Witness ==
  /\ started = 2 /\ loop = 2
  /\ act[1].pc = "cancelled" /\ act[2].pc = "sleep"
  /\ calls = <<>>

\* ----------------------------------------------------------------- C13
\* C13: kill_loop clears the handle and leaves the task it referred to
\* inactive; called with no active loop it changes nothing, and called twice
\* it leaves the state one call leaves.  While the handle is clear no loop
\* task is active, so no timer run starts before the next start_loop.
C13_KillLoopIdempotent ==
  LET k1 == kill_loop(loop, act, calls, posts)
      k2 == kill_loop(k1.loop, k1.act, k1.calls, k1.posts)
  IN  /\ k1.loop = 0
      /\ loop # 0 => k1.act[loop].pc \notin ActiveStates
      /\ \A p \in Procs : p # loop => k1.act[p] = act[p]
      /\ loop = 0 => k1 = [loop |-> loop, act |-> act, calls |-> calls, posts |-> posts]
      /\ k2 = k1
      /\ loop = 0 => ActiveTasks = {}

\* kill_loop was called on a sleeping loop task
C13_Witness ==
  /\ loop = 0 /\ started = 1
  /\ act[1].pc = "cancelled"

\* ----------------------------------------------------------------- C14
TaskIds == 1 .. Len(tasks)

\* C14: a listener (or reserved on_<event> method) that raises does not keep
\* any other handler from running to completion and its exception goes
\* nowhere: the step in which it raises changes no other task and nothing of
\* the code that dispatched or of the Poster; its own task ends normally; and
\* no task ends without its handler having returned or raised.
C14_ListenerFailureIsContained ==
  /\ [](\A t \in TaskIds :
          /\ tasks[t].outcome = "raised" => tasks[t].state = "done" /\ tasks[t].exc = NoneObj
          /\ tasks[t].state = "done" => tasks[t].outcome \in {"returned", "raised"})
  /\ [][\A t \in TaskIds :
          (tasks[t].state = "running" /\ tasks'[t].outcome = "raised")
          => /\ Len(tasks') = Len(tasks)
             /\ \A u \in TaskIds : u # t => tasks'[u] = tasks[u]
             /\ UNCHANGED <<act, calls, events, reg, listeners, methods, api_keys, loop>>]_vars

\* of the handlers of one dispatch, one has raised and one scheduled after
\* it, the reserved method, has returned
C14_Witness ==
  \E t, u \in TaskIds :
    /\ t < u /\ tasks[t].dispatch = tasks[u].dispatch
    /\ tasks[t].outcome = "raised" /\ tasks[t].coro.kind = "coroutine function"
    /\ tasks[u].outcome = "returned" /\ tasks[u].coro.kind = "method"

\* ----------------------------------------------------------------- C15
\* the tasks created by dispatch call number d
TasksOf(ts, d) == SelectSeq(ts, LAMBDA t : t.dispatch = d)

\* C15: a step that dispatches events creates, for each of them, exactly one
\* task per entry of the listener list of that event, in list order, then one
\* for the on_<event> method when the owner has it, and no other task; when
\* the step ends (dispatch has returned) all of these are still to run, and
\* no task that existed before has run in it.
C15_DispatchSchedulesAndReturns ==
  [][Len(events') > Len(events)
       => /\ SubSeq(tasks', 1, Len(tasks)) = tasks
          /\ \A n \in Len(tasks) + 1 .. Len(tasks') :
               /\ tasks'[n].dispatch \in Len(events) + 1 .. Len(events')
               /\ tasks'[n].state = "pending"
          /\ \A d \in Len(events) + 1 .. Len(events') :
               LET e == events'[d].name
                   new == TasksOf(tasks', d)
                   reserved == IF OnPrefix(e) \in methods \/ (e = "custom_post" /\ has_custom)
                                 THEN 1 ELSE 0
               IN  /\ Len(new) = Len(listeners[e]) + reserved
                   /\ \A n \in 1 .. Len(listeners[e]) : new[n].coro = listeners[e][n]
                   /\ reserved = 1 => /\ new[Len(new)].coro.kind = "method"
                                       /\ new[Len(new)].coro.name = OnPrefix(e)
                   /\ \A n \in 1 .. Len(new) : new[n].event = e]_vars

\* a dispatch of post with two listeners and the on_post method has created
\* three tasks, none of which has run
C15_Witness ==
  \E d \in 1 .. Len(events) :
    /\ events[d].name = "post"
    /\ Len(listeners["post"]) = 2 /\ "on_post" \in methods
    /\ Len(TasksOf(tasks, d)) = 3
    /\ \A n \in 1 .. 3 : TasksOf(tasks, d)[n].state = "pending"

\* ----------------------------------------------------------------- C16
\* C16: a dispatch call of user code for an event that has no listener and no
\* on_<event> method on the owner schedules no task and changes nothing of
\* the event handler or the Poster.
C16_DispatchWithoutHandlersIsNoOp ==
  [][(/\ dispatches' = dispatches + 1
      /\ listeners[events'[Len(events')].name] = <<>>
      /\ ~HasMethod(methods, has_custom, OnPrefix(events'[Len(events')].name)))
       => /\ tasks' = tasks
          /\ Len(events') = Len(events) + 1
          /\ UNCHANGED <<listeners, methods, reg, api_keys, has_custom, registered,
                         identity, loop, act, calls, requests, posts>>]_vars

\* custom_post was dispatched on a Poster without a custom-post handler while
\* post has a listener: nothing was scheduled
C16_Witness ==
  /\ dispatches = 1 /\ events[Len(events)].name = "custom_post"
  /\ ~has_custom
  /\ listeners["post"] # <<>>
  /\ tasks = <<>>

\* ----------------------------------------------------------------- C17
\* C17: event(f) for a callable f that is not a coroutine function, and
\* event(name)(x) for any x that is not a coroutine function, raise TypeError
\* and leave the listener registry as it was.
C17_NonCoroutineHandlerRejected ==
  /\ []((/\ reg.op \in {"event", "inner"}
         /\ reg.arg.kind \in {"function", "int"})
        => /\ reg.kind = "raised"
           /\ reg.val = TypeError)
  /\ [][(regs' = regs + 1 /\ reg'.arg.kind \in {"function", "int"})
          => listeners' = listeners]_vars

\* after a listener was registered, the named decorator was applied to an
\* object that is not callable, and the bare one to a plain function
C17_Witness ==
  /\ listeners # NoListeners
  /\ reg.kind = "raised"
  /\ \/ reg.op = "inner" /\ reg.arg.kind = "int"
     \/ reg.op = "event" /\ reg.arg.kind = "function"

\* ----------------------------------------------------------------- C18
\* C18: registering a coroutine function returns that same function and
\* appends it to the listener list of its event, every other list unchanged:
\* the event is the given name in the named form and, in the bare form, the
\* function's name without its on_ prefix (on_post listens to post).
C18_RegistrationReturnsHandler ==
  [][(regs' = regs + 1 /\ reg'.arg.kind = "coroutine function")
       => /\ reg'.kind = "returned"
          /\ reg'.val = reg'.arg
          /\ reg'.op = "inner"
               => listeners' = [listeners EXCEPT ![reg'.name] = Append(@, reg'.arg)]
          /\ (reg'.op = "event" /\ reg'.arg.name = "on_post")
               => listeners' = [listeners EXCEPT !["post"] = Append(@, reg'.arg)]
          /\ \E e \in EventNames :
               listeners' = [listeners EXCEPT ![e] = Append(@, reg'.arg)]]_vars

\* on_post was registered with the bare decorator and then a second handler
\* for post_fail with the named one
C18_Witness ==
  /\ reg.op = "inner" /\ reg.name = "post_fail" /\ reg.kind = "returned"
  /\ listeners["post_fail"] = <<reg.arg>>
  /\ Len(listeners["post"]) = 1 /\ listeners["post"][1].name = "on_post"

\* ----------------------------------------------------------------- C19
\* C19: a finished targeted manual_post(service=s), on a key store that is
\* not empty and has no key s, for an s the registry resolves, has raised
\* APIKeyException, has issued no HTTP request and has dispatched no event.
C19_MissingKeyRaisesAPIKeyException ==
  \A c \in CallIds :
    (/\ UserCall(c) /\ IsTargeted(c) /\ Done(c)
     /\ Service_get(SERVICES, calls[c].service) # NoneStr
     /\ ~HasKey(calls[c].store, calls[c].service))
    => /\ calls[c].status = "raised"
       /\ calls[c].val.type = "APIKeyException"
       /\ RequestsOf(c) = <<>>
       /\ EventsOf(c) = <<>>

\* ----------------------------------------------------------------- C20
\* the values of one field of the payload of a request
Field(req, name) == {f[2] : f \in {x \in req.request.payload : x[1] = name}}

\* C20: on a Poster constructed with shard_id=3 and shard_count=8 (sharding
\* enabled), the request of a targeted post to Top.gg carries shard_id 3 and
\* shard_count 8.
C20_ShardFieldsInPayload ==
  \A c \in CallIds :
    (/\ UserCall(c) /\ IsTargeted(c)
     /\ identity.shard_id = 3 /\ identity.shard_count = 8
     /\ RequestsOf(c) # <<>>
     /\ RequestsOf(c)[1].request.service = "TopGG")
    => /\ Field(RequestsOf(c)[1], "shard_id") = {3}
       /\ Field(RequestsOf(c)[1], "shard_count") = {8}

\* C21: a Poster or ClientPoster built with sharding disabled reports None
\* for shard_id and for shard_count, whatever shard options it was given
\* and whatever its adapter reports, and no request it issues carries a
\* shard field.
ShardFields == {"shard_id", "shard_count", "shardId", "shardCount", "shards", "shard"}
C21_ShardingDisabled ==
  ~identity.sharding =>
    /\ identity.shard_id = NoneInt
    /\ identity.shard_count = NoneInt
    /\ \A r \in 1 .. Len(requests) :
         \A f \in requests[r].request.payload : f[1] \notin ShardFields

\* a ClientPoster built with sharding off, with shard options and an adapter
\* that reports shard values, completed a post to Top.gg
C21_Witness ==
  /\ ~identity.sharding
  /\ identity.cls = "ClientPoster"
  /\ identity.given.shard_id = 3
  /\ identity.filler.shard_id = 5
  /\ \E r \in 1 .. Len(requests) : requests[r].request.service = "TopGG"
  /\ \E c \in CallIds : calls[c].status = "returned"

\* C22: whichever service a post goes to, an optional metric that is absent
\* (user count, voice connections, shard id, shard count) is left out of
\* the payload: no payload carries such a field with the value None.
OptionalFields == {"users", "user_count", "voice_connections"} \cup ShardFields
C22_AbsentMetricsOmitted ==
  \A r \in 1 .. Len(requests) :
    \A f \in requests[r].request.payload :
      f[1] \in OptionalFields => f[2] # NoneInt

\* C23: for every service of the registry, Service.get on any of its aliases
\* returns that service's descriptor: the aliases of one service resolve
\* alike and none of them resolves to another service.
C23_AliasesResolveToTheirService ==
  /\ \A i \in 1 .. Len(SERVICES) :
       \A a \in aliases(SERVICES[i]) : Service_get(SERVICES, a) = SERVICES[i]
  /\ resolved.val # NoValue =>
       \A i \in 1 .. Len(SERVICES) :
         resolved.key \in aliases(SERVICES[i]) => resolved.val = Descriptor(SERVICES[i])

\* the fourth alias of the twelfth descriptor was resolved
C23_Witness ==
  /\ resolved.key = "botlist.space"
  /\ resolved.val = Descriptor("DiscordListSpace")

\* str.strip() on the strings the model uses
Strip(s) ==
  CASE s = " topgg " -> "topgg"
    [] s = " TopGG " -> "TopGG"
    [] s = " topgg" -> "topgg"
    [] s = "topgg " -> "topgg"
    [] OTHER -> s

\* C24: Service.get is case-insensitive and trimmed: a key that equals an
\* alias after lower-casing and after removing leading and trailing
\* whitespace resolves to the descriptor of that alias.
C24_ResolutionIgnoresCaseAndPadding ==
  resolved.val # NoValue =>
    \A i \in 1 .. Len(SERVICES) :
      Strip(Lower(resolved.key)) \in aliases(SERVICES[i])
        => resolved.val = Descriptor(SERVICES[i])

\* C25: Service.get on a key no descriptor claims raises
\* ServiceException('Invalid service'), and a targeted manual_post to such a
\* key on a non-empty key store raises that error without issuing a request.
Unclaimed(key) ==
  \A i \in 1 .. Len(SERVICES) : Strip(Lower(key)) \notin aliases(SERVICES[i])
C25_UnclaimedKeyIsInvalidService ==
  /\ resolved.val # NoValue /\ Unclaimed(resolved.key)
       => resolved.val = ServiceException(<<"Invalid service">>)
  /\ \A c \in CallIds :
       IsTargeted(c) /\ Unclaimed(calls[c].service) =>
         /\ RequestsOf(c) = <<>>
         /\ calls[c].status = "raised"
         /\ calls[c].val = ServiceException(<<"Invalid service">>)

\* an unclaimed key was resolved, and a targeted post to an unclaimed key
\* that the key store holds a credential for has failed
C25_Witness ==
  /\ resolved.key = "topgg.com"
  /\ resolved.val.kind = "error"
  /\ \E c \in CallIds :
       /\ calls[c].service = "nosuch"
       /\ HasKey(calls[c].store, "nosuch")
       /\ calls[c].status = "raised"

\* the key-store entries whose service key differs from service at most in
\* letter case
SameButCase(store, service) ==
  {i \in 1 .. Len(store) : Lower(store[i].service) = Lower(service)}

\* C26: the key store is case-insensitive in its service key: the
\* credential stored under k is returned by get_key, removed by remove_key
\* and sent by manual_post for every service argument that differs from k
\* only in letter case.
C26_KeyStoreIgnoresCase ==
  /\ key_result.op = "get_key" =>
       \A i \in SameButCase(api_keys, key_result.service) :
         key_result.kind = "returned" /\ key_result.val = api_keys[i].key
  /\ key_result.op = "remove_key" /\ key_result.kind = "raised" =>
       SameButCase(api_keys, key_result.service) = {}
  /\ \A c \in CallIds :
       IsTargeted(c) =>
         \A i \in SameButCase(calls[c].store, calls[c].service) :
           TruthyStr(calls[c].store[i].key) =>
             /\ Len(RequestsOf(c)) = 1
             /\ Credential(RequestsOf(c)[1]) = {calls[c].store[i].key}

\* C27: get_key(s) and remove_key(s) for a service s that the key store has
\* no entry for raise KeyError and leave the key store as it was.
C27_AbsentKeyRaisesKeyError ==
  [][ (/\ keyops' # keyops
       /\ key_result'.op \in {"get_key", "remove_key"}
       /\ ~HasKey(api_keys, key_result'.service))
      => (/\ key_result'.kind = "raised"
          /\ key_result'.val = "KeyError"
          /\ api_keys' = api_keys) ]_vars

\* remove_key failed on a store with two other entries
C27_Witness ==
  /\ key_result.op = "remove_key"
  /\ key_result.kind = "raised"
  /\ Len(api_keys) = 2

\* C28: get_key("unconfigured") on a non-empty key store without an entry
\* for it fails with an outcome that differs from the outcome of the same
\* call on an empty key store.
C28_UnconfiguredDiffersFromEmpty ==
  (/\ key_result.op = "get_key"
   /\ key_result.service = "unconfigured"
   /\ Len(api_keys) # 0
   /\ ~HasKey(api_keys, "unconfigured"))
  => (/\ key_result.kind = "raised"
      /\ key_result # get_key(<<>>, "unconfigured").result)

\* the entry of service t in a store: its credential, or nothing
Entry(store, t) == IF HasKey(store, t) THEN <<Lookup(store, t)>> ELSE <<>>
Others(s) == (KeyArgs \cup {api_keys[i].service : i \in 1 .. Len(api_keys)}) \ {s}

\* C29: the key store is a plain map: get_key after set_key(s, k) returns k,
\* the last value set; remove_key(s) returns the stored credential and
\* get_key(s) fails afterwards; none of the three touches the entry of
\* another service; and an entry disappears only in a remove_key of it.
C29_KeyStoreIsAPlainMap ==
  /\ [](\A s \in KeyArgs :
         /\ \A k1, k2 \in Credentials :
              /\ get_key(set_key(api_keys, s, k1).store, s).result
                   = KeyResult("get_key", s, "returned", k1)
              /\ get_key(set_key(set_key(api_keys, s, k1).store, s, k2).store, s).result
                   = KeyResult("get_key", s, "returned", k2)
              /\ \A t \in Others(s) :
                   Entry(set_key(api_keys, s, k1).store, t) = Entry(api_keys, t)
         /\ HasKey(api_keys, s) =>
              /\ remove_key(api_keys, s).result
                   = KeyResult("remove_key", s, "returned", Lookup(api_keys, s))
              /\ get_key(remove_key(api_keys, s).store, s).result.kind = "raised"
         /\ \A t \in Others(s) :
              /\ Entry(remove_key(api_keys, s).store, t) = Entry(api_keys, t)
              /\ Entry(get_key(api_keys, s).store, t) = Entry(api_keys, t))
  /\ [][ \A t \in Others("") :
           Entry(api_keys', t) # Entry(api_keys, t) =>
             /\ keyops' = keyops + 1
             /\ key_result'.service = t
             /\ \/ key_result'.op = "remove_key" /\ Entry(api_keys', t) = <<>>
                \/ key_result'.op = "set_key" /\ Entry(api_keys', t) = <<key_result'.val>> ]_vars

\* remove_key returned the credential of one of two entries, and the other
\* entry is still there
C29_Witness ==
  /\ key_result = KeyResult("remove_key", "topgg", "returned", "T1")
  /\ api_keys = <<[service |-> "dbots", key |-> "T2"]>>

\* what a caller can observe of a finished call c, apart from its position
\* in the histories: the result or error, the requests and the events
Normal(v) == [v EXCEPT !.req = 0]
Observed(c) ==
  [status |-> calls[c].status,
   val |-> Normal(calls[c].val),
   requests |-> [r \in 1 .. Len(RequestsOf(c)) |-> RequestsOf(c)[r].request],
   events |-> [e \in 1 .. Len(EventsOf(c)) |->
                 <<EventsOf(c)[e].name, Normal(EventsOf(c)[e].payload)>>]]
\* what the outside did to call c: the reply to its request, or for a
\* custom post how the handler ended
Answer(c) == IF IsCustom(c) THEN <<calls[c].status>> ELSE <<ReplyOf(c)>>
\* the accessors a Poster can be given: plain and asynchronous functions
AccessorFunctions ==
  {Obj(kind, Accessors[i], 0) : kind \in {"function", "coroutine function"}, i \in 1 .. 3}

Category(status) ==
  IF status \in 200 .. 299 THEN "HTTPResponse"
  ELSE IF status = 401 THEN "HTTPUnauthorized"
  ELSE IF status = 403 THEN "HTTPForbidden"
  ELSE IF status = 404 THEN "HTTPNotFound"
  ELSE "HTTPException"

Flagged(op) == ReadOptions(op, "", "").requires_token
C32_TokenRequiredBeforeRequest ==
  [][reader'.calls > reader.calls =>
       LET op == reader'.last.op
       IN  /\ Flagged(op) /\ ~TruthyStr(reader.token) =>
                /\ reader'.last.k = "raise"
                /\ reader'.last.val = EndpointRequiresToken
                /\ requests' = requests
           /\ Flagged(op) /\ TruthyStr(reader.token) =>
                /\ reader'.last.k = "http"
                /\ Len(requests') = Len(requests) + 1
                /\ SubSeq(requests', 1, Len(requests)) = requests
                /\ requests'[Len(requests')].request.url
                     = ReadOptions(op, reader.token, "1234567890").url
                /\ <<"Authorization", reader.token>>
                     \in requests'[Len(requests')].request.headers]_vars
C32_Witness ==
  /\ reader.calls > 0
  /\ reader.token = ""
  /\ Flagged(reader.last.op)
  /\ reader.last.k = "raise"
  /\ requests = <<>>


TickCallsOf(p, cs) == {c \in 1 .. Len(cs) : cs[c].proc = p}
C34_SleepThenOnePost ==
  /\ [](\A p \in Tasks :
          /\ act[p].pc \in {"unborn", "sleep"} => \A c \in TickCallsOf(p, calls) : Done(c)
          /\ act[p].pc = "unborn" => TickCallsOf(p, calls) = {}
          /\ Cardinality({c \in TickCallsOf(p, calls) : ~Done(c)}) <= 1)
  /\ [][
         /\ started' = started + 1
            => /\ Len(calls') = Len(calls)
               /\ requests' = requests /\ custom_calls' = custom_calls /\ Len(posts') = Len(posts)
               /\ act'[started'].pc = "sleep"
         /\ Len(calls') > Len(calls) /\ calls'[Len(calls')].proc # 0
            => /\ Len(calls') = Len(calls) + 1
               /\ act[calls'[Len(calls')].proc].pc = "sleep"
               /\ calls'[Len(calls')].api = "tick"
               /\ calls'[Len(calls')].service = NoneStr
         /\ \A p \in Tasks :
              /\ act[p].pc = "sleep" /\ act'[p].pc \notin {"sleep", "cancelled"}
                 => /\ Len(calls') = Len(calls) + 1
                    /\ calls'[Len(calls')].proc = p
              /\ act[p].pc # "sleep" /\ act'[p].pc = "sleep"
                 => \/ act[p].pc = "unborn" /\ started' = p
                    \/ \E c \in TickCallsOf(p, calls) :
                         ~Done(c) /\ calls'[c].status = "returned"]_vars
\* the second loop was started, its task woke up once and its post has ended
C34_Witness ==
  \E c \in CallIds :
    /\ calls[c].api = "tick" /\ Done(c)
    /\ calls[c].proc = 2
    /\ started = 2


\* C35: a successful registration puts the handler at the end of the list of
\* its event and leaves the other entries where they were, and a dispatch
\* schedules one task per entry of the list in that order, the task of the
\* owner's on_<event> method coming after all of them: two handlers
\* registered one after the other for an event are scheduled in that order,
\* after the handlers registered earlier and before the method.
Coros(ts) == [n \in 1 .. Len(ts) |-> ts[n].coro]
RegisteredHandlers == {h \in Handlers : iscoroutinefunction(h)}
C35_ScheduledInRegistrationOrder ==
  /\ [](\A h1, h2 \in RegisteredHandlers, ev \in DispatchArgs :
          LET ls1 == inner(listeners, ev, h1).listeners
              ls2 == inner(ls1, ev, h2).listeners
              ts == dispatch(ls2, methods, has_custom, ev, 1)
              n == Len(listeners[ev])
          IN  /\ SubSeq(Coros(ts), 1, n + 2) = listeners[ev] \o <<h1, h2>>
              /\ Len(ts) = n + 2 + (IF HasMethod(methods, has_custom, OnPrefix(ev)) THEN 1 ELSE 0)
              /\ Len(ts) = n + 3 => ts[n + 3].coro = Obj("method", OnPrefix(ev), 0))
  /\ [][/\ (regs' = regs + 1 /\ reg'.kind = "returned")
            => \E to \in EventNames :
                 /\ listeners'[to] = Append(listeners[to], reg'.arg)
                 /\ \A e \in EventNames \ {to} : listeners'[e] = listeners[e]
         /\ dispatches' = dispatches + 1
            => LET name == events'[Len(events')].name
                   new == SubSeq(tasks', Len(tasks) + 1, Len(tasks'))
                   n == Len(listeners[name])
               IN  /\ SubSeq(tasks', 1, Len(tasks)) = tasks
                   /\ SubSeq(Coros(new), 1, n) = listeners[name]
                   /\ Len(new) = n + (IF HasMethod(methods, has_custom, OnPrefix(name)) THEN 1 ELSE 0)
                   /\ Len(new) = n + 1 => new[n + 1].coro = Obj("method", OnPrefix(name), 0)]_vars
\* my_post, then on_post were registered for the event post on a Poster whose
\* class defines on_post, and a dispatch of post scheduled the three in that
\* order
C35_Witness ==
  /\ Len(tasks) = 3
  /\ reg.arg = Obj("coroutine function", "on_post", 1)
  /\ Coros(tasks) = <<Obj("coroutine function", "my_post", 2),
                      Obj("coroutine function", "on_post", 1),
                      Obj("method", "on_post", 0)>>
  /\ \A t \in 1 .. 3 : tasks[t].dispatch = 1 /\ tasks[t].event = "post"


\* C36: no step changes the identity context (client_id, shard_id,
\* shard_count and what they are computed from), and the key store changes
\* only in a step that is a call of set_key or remove_key: a step of post or
\* manual_post (a call, the answer to a request, the end of the custom
\* handler), of dispatch, of start_loop, of kill_loop or of a loop task
\* leaves both as they were.
PosterStep ==
  \/ calls' # calls
  \/ posts' # posts
  \/ requests' # requests
  \/ events' # events
  \/ dispatches' # dispatches
  \/ started' # started
  \/ loop' # loop
  \/ act' # act
C36_OnlyKeyOperationsChangeTheStore ==
  [][/\ identity' = identity
     /\ PosterStep => api_keys' = api_keys
     /\ api_keys' # api_keys
          => /\ keyops' = keyops + 1
             /\ key_result'.op \in {"set_key", "remove_key"}]_vars
\* a post to all services failed, a custom post returned or a loop task has
\* run and a loop is held, after the store had been changed by set_key: it
\* is still the store set_key left
C36_Witness ==
  /\ keyops = 1 /\ key_result.op = "set_key"
  /\ api_keys = <<[service |-> "topgg", key |-> "T1"], [service |-> "dbots", key |-> "T3"]>>
  /\ \E c \in CallIds : calls[c].api = "tick" /\ Done(c) /\ calls[c].store = api_keys
  /\ \E c \in CallIds : calls[c].api = "manual_post" /\ Done(c) /\ calls[c].store = api_keys
  /\ dispatches = 1
  /\ loop # 0


\* C37: on a Poster whose shard_id and shard_count are both present (not
\* None), shard id 0 included, every request to a service that sends shard
\* fields carries the shard fields of that service.
FieldNames(payload) == {f[1] : f \in payload}
ShardFieldsOf(svc) ==
  FieldNames(Service_post(svc, "1234567890", "T1", 1, 1, 1, 1, 1).payload) \cap ShardFields
C37_ShardFieldsWheneverBothPresent ==
  \A r \in 1 .. Len(requests) :
    (identity.shard_id # NoneInt /\ identity.shard_count # NoneInt)
    => ShardFieldsOf(requests[r].request.service)
         \subseteq FieldNames(requests[r].request.payload)


\* C38: a custom post (manual_post(service="custom") on a Poster that has a
\* custom-post handler) dispatches no post and no post_fail event, neither
\* when it is called nor when the handler ends: the step in which the
\* handler returns or raises dispatches nothing and schedules no task, and
\* only hands the handler's result or exception to the caller.
CustomCall(c, cs) == cs[c].proc = 0 /\ cs[c].service = "custom" /\ has_custom
C38_CustomPostDispatchesNothing ==
  /\ [](\A c \in CallIds : (UserCall(c) /\ IsCustom(c)) => PostEventsOf(c) = <<>>)
  /\ [][/\ (Len(calls') > Len(calls) /\ CustomCall(Len(calls'), calls'))
            => events' = events /\ tasks' = tasks
         /\ \A c \in CallIds :
              (CustomCall(c, calls) /\ calls[c].status = "running" /\ calls'[c].status # "running")
              => /\ events' = events
                 /\ tasks' = tasks
                 /\ calls'[c].status \in {"returned", "raised"}
                 /\ calls'[c].val.type = (IF calls'[c].status = "returned"
                                            THEN "CustomResult" ELSE "CustomHandlerError")
                 /\ act'[0].pc = "idle"]_vars
\* the custom-post handler has raised: its exception reached the caller and
\* no event was dispatched
C38_Witness ==
  \E c \in CallIds :
    /\ UserCall(c) /\ IsCustom(c)
    /\ calls[c].status = "raised"
    /\ calls[c].val.type = "CustomHandlerError"
    /\ events = <<>>


\* C39: on a Poster that has a custom-post handler and an empty key store, a
\* post to all services (post() or manual_post with service None or '')
\* raises APIKeyException('No API Keys available') in the step that calls it,
\* and the custom-post handler is not invoked.
C39_EmptyStoreFanoutSkipsCustomHandler ==
  /\ [](\A c \in CallIds :
          (UserCall(c) /\ has_custom /\ Len(calls[c].store) = 0 /\ ~TruthyStr(calls[c].service))
          => /\ calls[c].status = "raised"
             /\ calls[c].val = APIKeyException(<<"No API Keys available">>)
             /\ Of(c, custom_calls) = <<>>
             /\ PostsOf(c) = <<>> \/ \A n \in 1 .. Len(PostsOf(c)) : PostsOf(c)[n].service # "custom")
  /\ [][(/\ Len(calls') > Len(calls)
          /\ calls'[Len(calls')].proc = 0
          /\ has_custom /\ Len(api_keys) = 0
          /\ ~TruthyStr(calls'[Len(calls')].service))
           => /\ custom_calls' = custom_calls
              /\ requests' = requests
              /\ act'[0].pc = "idle"]_vars
\* post() with no service was called on such a Poster and has raised
C39_Witness ==
  \E c \in CallIds :
    /\ calls[c].api = "post" /\ calls[c].service = NoneStr
    /\ has_custom /\ Len(calls[c].store) = 0
    /\ calls[c].val.type = "APIKeyException"
    /\ custom_calls = <<>>

====
